---- MODULE Spec2Model ----
(***************************************************************************)
(* Account and credential lifecycle of drive-backend: the registration     *)
(* saga of AuthService.registerUser (identity provider + profile store     *)
(* with compensating delete), the password-recovery flow                   *)
(* (requestPasswordReset / resetPassword) over UsersService, TFA           *)
(* enrollment and login (generateTfaSecretForUser, confirmTfaForUser,      *)
(* login, loginTfa) and the cipher of OtpAuthenticatorService.             *)
(*                                                                         *)
(* Every request is one execution of a service method.  Its steps are the  *)
(* awaited collaborator calls of the method: the code between two awaits   *)
(* touches no shared state, so one action is one collaborator call         *)
(* together with the synchronous code that follows it.                     *)
(***************************************************************************)
EXTENDS Integers, Sequences, FiniteSets, TLC

VARIABLES
    accounts,   \* identity provider: set of [uid, email, password]
    nextUid,    \* identity provider: next fresh uid (uids are never reused)
    profiles,   \* profile store: set of User documents
    now,        \* wall clock (Date.now()), in units of 30 minutes
    pc,         \* per request: position in its handler
    dto,        \* per request: the payload it was called with
    loc,        \* per request: local variables and a log of its collaborator calls
    result,     \* per request: what the caller received
    prior,      \* per request: the requests that had returned when it started
    env         \* process configuration: TFA_ENCRYPTION_KEY

vars == <<accounts, nextUid, profiles, now, pc, dto, loc, result, prior, env>>

---------------------------------------------------------------------------
(* Bounds                                                                  *)

MaxReq == 2
MaxResetReq == 2
MaxTime == 3

Req == 1..MaxReq
ResetReq == 1..MaxResetReq

---------------------------------------------------------------------------
(* Values                                                                  *)

\* An optional value (null | v) is <<>> or <<v>>.
None == <<>>
Some(v) == <<v>>
IsSome(o) == o # <<>>
Get(o) == o[1]

Emails == {"a@x.com", "b@x.com"}
Usernames == {"alice", "Alice", "bob", "al"}
Passwords == {"password1", "password2", "short"}

\* String.prototype.toLowerCase on the strings of the model.
ToLowerCase(s) ==
    CASE s = "Alice" -> "alice"
      [] s = "A@x.com" -> "a@x.com"
      [] OTHER -> s

Outcome(status, detail) == [status |-> status, detail |-> detail]
NoResult == Outcome("pending", "")

NoDto == [kind |-> "none"]

\* The configuration with TFA_ENCRYPTION_KEY unset.
NoEnv == [TFA_ENCRYPTION_KEY |-> None]

InitLoc ==
    [ firebaseUser   |-> None,    \* registerUser: uid returned by createUser
      mongoError     |-> None,    \* registerUser: exception caught from createProfile
      createCalls    |-> 0,       \* log: createUser calls issued
      deleteCalls    |-> <<>>,    \* log: uids passed to deleteUser, in order
      rollbackFailed |-> FALSE,   \* log: deleteUser threw
      user           |-> None,    \* password flows: the document read, while in use
      readIssue      |-> None,    \* log: the profile's latest issuance when it was read
      mailCalls      |-> 0,       \* log: sendUserRecovery calls issued
      pwUpdates      |-> 0,       \* log: successful updateUser calls
      faulted        |-> FALSE,   \* log: a collaborator failed during the request
      doneIssue      |-> None ]   \* log: the profile's latest issuance when it returned

---------------------------------------------------------------------------
(* Request bookkeeping                                                     *)

\* The handler of request r returns `out` to its caller.
Return(r, out) ==
    /\ pc' = [pc EXCEPT ![r] = "done"]
    /\ result' = [result EXCEPT ![r] = out]

Goto(r, label) ==
    /\ pc' = [pc EXCEPT ![r] = label]
    /\ UNCHANGED result

\* Requests are interchangeable: they are started in the order of their ids.
CanStart(r) == pc[r] = "idle" /\ (IF r = 1 THEN TRUE ELSE pc[r - 1] # "idle")

Returned == {s \in DOMAIN pc : pc[s] = "done"}

---------------------------------------------------------------------------
(* RegisterUserDto and its class-validator rules                           *)

MinPasswordLength == 8
UsernameMinLength == 3
UsernameMaxLength == 30

\* @IsEmail on the strings of the model.
IsEmail(s) == s \in Emails

RegisterDtos ==
    { [kind |-> "register", email |-> e, username |-> u,
       password |-> p, confirmPassword |-> c] :
         e \in Emails, u \in Usernames, p \in Passwords, c \in Passwords }

\* The payloads the model submits: every email with every well-formed username
\* and matching passwords, and for b@x.com also the ill-formed payloads.
RegisterInputs ==
    { d \in RegisterDtos :
        \/ /\ d.username # "al"
           /\ d.password = "password1" /\ d.confirmPassword = "password1"
        \/ /\ d.email = "b@x.com" /\ d.username = "alice"
           /\ d.password = "password1" /\ d.confirmPassword = "password2"
        \/ /\ d.email = "b@x.com" /\ d.username \in {"al", "alice"}
           /\ d.password = "short" /\ d.confirmPassword = "short" }

\* plainToInstance(RegisterUserDto, dto): the @Transform of email and username.
PlainToInstance(d) ==
    [d EXCEPT !.email = ToLowerCase(d.email), !.username = ToLowerCase(d.username)]

\* validateOrReject(dtoInstance) resolves.
ValidateOrReject(inst) ==
    /\ IsEmail(inst.email)
    /\ Len(inst.password) >= MinPasswordLength
    /\ Len(inst.confirmPassword) >= MinPasswordLength
    /\ Len(inst.username) >= UsernameMinLength
    /\ Len(inst.username) <= UsernameMaxLength

---------------------------------------------------------------------------
(* UsersService over the profile store                                     *)

\* The User document createProfile builds.
ProfileData(firebaseUid, email, d) ==
    [ firebaseUid          |-> firebaseUid,
      email                |-> ToLowerCase(email),
      username             |-> ToLowerCase(d.username),
      resetPasswordCode    |-> None,
      resetPasswordExpires |-> None,
      codeBy               |-> None,  \* log: the request that wrote resetPasswordCode
      expiresBy            |-> None,  \* log: the request that wrote resetPasswordExpires
      issue                |-> None ] \* log: the request that last issued a code

IsUsernameTakenNever(username) == FALSE

\* UsersService.isUsernameTaken
IsUsernameTaken(username) ==
    /\ username # ""
    /\ \E p \in profiles : p.username = ToLowerCase(username)

NoUniqueIndex(doc) == {}

\* The unique indexes of the User schema that inserting doc would violate
\* (MongoDB error 11000), in the order of the schema.
DuplicateKeys(doc) ==
    {f \in {"firebaseUid", "email", "username"} : \E p \in profiles : p[f] = doc[f]}

\* Object.keys(error.keyPattern)[0]
KeyPatternField(keys) ==
    IF "firebaseUid" \in keys THEN "firebaseUid"
    ELSE IF "email" \in keys THEN "email" ELSE "username"

FindByEmailAny(email) == profiles

\* UsersService.findProfileByEmail, and the findOne of generatePasswordReset
FindByEmail(email) == {p \in profiles : p.email = ToLowerCase(email)}
FindByUid(uid) == {p \in profiles : p.firebaseUid = uid}

---------------------------------------------------------------------------
(* AuthService.registerUser                                                *)

\* Validation, the username pre-check and the password comparison, in the
\* order of the code: the outcome, or "proceed".
RegisterChecks(d) ==
    LET inst == PlainToInstance(d) IN
    IF ~ValidateOrReject(inst) THEN Outcome("BadRequest", "Validacion fallida")
    ELSE IF inst.username # "" /\ IsUsernameTaken(inst.username)
         THEN Outcome("Conflict", "username_taken")
    ELSE IF d.password # d.confirmPassword
         THEN Outcome("BadRequest", "password_mismatch")
    ELSE Outcome("proceed", "")

RegisterStart(r, d) ==
    /\ CanStart(r)
    /\ dto' = [dto EXCEPT ![r] = d]
    /\ prior' = [prior EXCEPT ![r] = Returned]
    /\ LET out == RegisterChecks(d) IN
       IF out.status = "proceed" THEN Goto(r, "createUser") ELSE Return(r, out)
    /\ UNCHANGED <<accounts, nextUid, profiles, now, loc, env>>

EmailAlreadyExists(email) == \E a \in accounts : a.email = email

CreateUserErrorInternal(code) == Outcome("Internal", "Error al crear usuario.")

\* What the catch around createUser throws for the provider's error code.
CreateUserError(code) ==
    IF code = "auth/email-already-exists"
    THEN Outcome("Conflict", "email_exists")
    ELSE Outcome("Internal", "Error al crear usuario.")

\* firebaseAdmin.auth.createUser and the catch around it.
RegisterCreateUser(r) ==
    /\ pc[r] = "createUser"
    /\ \/ /\ ~EmailAlreadyExists(dto[r].email)
          /\ accounts' = accounts \cup
                 {[uid |-> nextUid, email |-> dto[r].email,
                   password |-> dto[r].password]}
          /\ nextUid' = nextUid + 1
          /\ loc' = [loc EXCEPT ![r].firebaseUser = Some(nextUid),
                                ![r].createCalls = @ + 1]
          /\ Goto(r, "createProfile")
       \/ /\ EmailAlreadyExists(dto[r].email)
          /\ loc' = [loc EXCEPT ![r].createCalls = @ + 1]
          /\ Return(r, CreateUserError("auth/email-already-exists"))
          /\ UNCHANGED <<accounts, nextUid>>
       \/ \* any other provider error
          /\ loc' = [loc EXCEPT ![r].createCalls = @ + 1, ![r].faulted = TRUE]
          /\ Return(r, CreateUserError("auth/internal-error"))
          /\ UNCHANGED <<accounts, nextUid>>
       \/ \* createUser resolved without a user record
          /\ loc' = [loc EXCEPT ![r].createCalls = @ + 1, ![r].faulted = TRUE]
          /\ Return(r, Outcome("Internal", "Error al crear usuario.."))
          /\ UNCHANGED <<accounts, nextUid>>
    /\ UNCHANGED <<profiles, now, dto, prior, env>>

\* The exception UsersService.createProfile throws for a store error.
CreateProfileError(keys) ==
    IF keys # {}
    THEN [http |-> TRUE, out |-> Outcome("Conflict", KeyPatternField(keys))]
    ELSE [http |-> TRUE, out |-> Outcome("Internal", "raw store message")]

\* userService.createProfile(firebaseUser.uid, firebaseUser.email ?? '', dto)
RegisterCreateProfile(r) ==
    /\ pc[r] = "createProfile"
    /\ LET uid  == Get(loc[r].firebaseUser)
           acct == CHOOSE a \in accounts : a.uid = uid
           doc  == ProfileData(uid, acct.email, dto[r])
           keys == DuplicateKeys(doc)
       IN \/ /\ keys = {}
             /\ profiles' = profiles \cup {doc}
             /\ Return(r, Outcome("ok", acct.email))
             /\ UNCHANGED loc
          \/ /\ keys # {}
             /\ loc' = [loc EXCEPT ![r].mongoError = Some(CreateProfileError(keys))]
             /\ Goto(r, "rollback")
             /\ UNCHANGED profiles
          \/ \* any other store error
             /\ loc' = [loc EXCEPT ![r].mongoError = Some(CreateProfileError({})),
                                   ![r].faulted = TRUE]
             /\ Goto(r, "rollback")
             /\ UNCHANGED profiles
    /\ UNCHANGED <<accounts, nextUid, now, dto, prior, env>>

RegisterRethrowInternal(mongoError) ==
    Outcome("Internal", "Error al crear perfil, contacte con soporte.")

\* What registerUser throws from its catch (mongoError) block.
RegisterRethrow(mongoError) ==
    IF mongoError.http THEN mongoError.out
    ELSE Outcome("Internal", "Error al crear perfil, contacte con soporte.")

RollbackTargetsNone(r) == <<>>

\* The uids registerUser passes to deleteUser when createProfile threw.
RollbackTargets(r) == <<Get(loc[r].firebaseUser)>>

\* The catch (mongoError) block: deleteUser, its error swallowed, then rethrow.
RegisterRollback(r) ==
    /\ pc[r] = "rollback"
    /\ LET targets == RollbackTargets(r) IN
       \/ /\ accounts' = {a \in accounts : \A i \in DOMAIN targets : a.uid # targets[i]}
          /\ loc' = [loc EXCEPT ![r].deleteCalls = @ \o targets]
       \/ \* deleteUser throws: catch (rollbackError) {}
          /\ Len(targets) > 0
          /\ loc' = [loc EXCEPT ![r].deleteCalls = @ \o targets,
                                ![r].rollbackFailed = TRUE,
                                ![r].faulted = TRUE]
          /\ UNCHANGED accounts
    /\ Return(r, RegisterRethrow(Get(loc[r].mongoError)))
    /\ UNCHANGED <<nextUid, profiles, now, dto, prior, env>>

---------------------------------------------------------------------------
(* The registration system: concurrent registerUser requests on an empty   *)
(* identity provider and an empty profile store.                           *)

Init ==
    /\ accounts = {}
    /\ nextUid = 1
    /\ profiles = {}
    /\ now = 0
    /\ pc = [r \in Req |-> "idle"]
    /\ dto = [r \in Req |-> NoDto]
    /\ loc = [r \in Req |-> InitLoc]
    /\ result = [r \in Req |-> NoResult]
    /\ prior = [r \in Req |-> {}]
    /\ env = NoEnv

Next ==
    \/ \E r \in Req, d \in RegisterInputs : RegisterStart(r, d)
    \/ \E r \in Req : RegisterCreateUser(r)
    \/ \E r \in Req : RegisterCreateProfile(r)
    \/ \E r \in Req : RegisterRollback(r)

Spec == Init /\ [][Next]_vars

---------------------------------------------------------------------------
(* UsersService.generatePasswordReset and AuthService.requestPasswordReset *)

\* 60 * 60 * 1000 ms, in clock units of 30 minutes.
ResetTtl == 2

\* Stand-ins for the codes `${Math.floor(100000 + Math.random() * 900000)}`.
Codes == {"111111", "222222"}

RequestInputs ==
    { [kind |-> "requestReset", email |-> e] : e \in {"a@x.com", "b@x.com"} }

PublicResponse ==
    Outcome("ok", "Si el correo esta registrado, se ha enviado un codigo de recuperacion.")

RequestResetError ==
    Outcome("Internal", "Error al procesar la solicitud de recuperacion de contrasena.")

\* new Date(Date.now() + 60 * 60 * 1000)
ResetExpires(t) == t + ResetTtl

\* generatePasswordReset up to its save: findOne, then the code and the expiry
\* assigned to the document read.  A missing user is a NotFoundException, which
\* the catch of requestPasswordReset turns into its InternalServerErrorException.
RequestResetStart(r, d, code) ==
    /\ CanStart(r)
    /\ dto' = [dto EXCEPT ![r] = d]
    /\ prior' = [prior EXCEPT ![r] = Returned]
    /\ LET found == FindByEmail(d.email) IN
       \/ /\ found = {}
          /\ Return(r, RequestResetError)
          /\ UNCHANGED loc
       \/ /\ found # {}
          /\ LET user == CHOOSE p \in found : TRUE IN
             loc' = [loc EXCEPT
                       ![r].user = Some([user EXCEPT
                                           !.resetPasswordCode = Some(code),
                                           !.resetPasswordExpires = Some(ResetExpires(now))])]
          /\ Goto(r, "save")
       \/ \* the store query fails
          /\ loc' = [loc EXCEPT ![r].faulted = TRUE]
          /\ Return(r, RequestResetError)
    /\ UNCHANGED <<accounts, nextUid, profiles, now, env>>

SaveResetKeepsPending(p, user, r) ==
    IF IsSome(p.resetPasswordCode) THEN [p EXCEPT !.issue = Some(r)]
    ELSE [p EXCEPT !.resetPasswordCode = user.resetPasswordCode,
                   !.resetPasswordExpires = user.resetPasswordExpires,
                   !.codeBy = Some(r), !.expiresBy = Some(r), !.issue = Some(r)]

\* user.save(): one update that sets both fields assigned by generatePasswordReset.
SaveReset(p, user, r) ==
    [p EXCEPT !.resetPasswordCode = user.resetPasswordCode,
              !.resetPasswordExpires = user.resetPasswordExpires,
              !.codeBy = Some(r), !.expiresBy = Some(r), !.issue = Some(r)]

\* await user.save() in generatePasswordReset.
RequestResetSave(r) ==
    /\ pc[r] = "save"
    /\ LET user == Get(loc[r].user) IN
       \/ /\ profiles' = { IF p.firebaseUid = user.firebaseUid
                           THEN SaveReset(p, user, r) ELSE p : p \in profiles }
          /\ Goto(r, "mail")
          /\ loc' = [loc EXCEPT ![r].user = None]
       \/ \* the store update fails
          /\ loc' = [loc EXCEPT ![r].faulted = TRUE, ![r].user = None]
          /\ Return(r, RequestResetError)
          /\ UNCHANGED profiles
    /\ UNCHANGED <<accounts, nextUid, now, dto, prior, env>>

\* What requestPasswordReset returns after sendUserRecovery, which resolved
\* with { success: delivered }: the value is not looked at.
AfterSendUserRecovery(delivered) == PublicResponse

\* if (user) await emailService.sendUserRecovery(user), then return
\* publicResponse.  sendUserRecovery catches the mailer's error itself and
\* resolves with { success: false }.
RequestResetMail(r) ==
    /\ pc[r] = "mail"
    /\ \/ /\ loc' = [loc EXCEPT ![r].mailCalls = @ + 1]
          /\ Return(r, AfterSendUserRecovery(TRUE))
       \/ \* mailerService.sendMail throws
          /\ loc' = [loc EXCEPT ![r].mailCalls = @ + 1, ![r].faulted = TRUE]
          /\ Return(r, AfterSendUserRecovery(FALSE))
    /\ UNCHANGED <<accounts, nextUid, profiles, now, dto, prior, env>>

---------------------------------------------------------------------------
(* AuthService.resetPassword                                               *)

ConfirmDtos ==
    { [kind |-> "resetPassword", email |-> e, code |-> c,
       newPassword |-> "password2", confirmNewPassword |-> n] :
         e \in {"a@x.com", "A@x.com", "b@x.com"}, c \in Codes,
         n \in {"password2", "password3"} }

\* The payloads the model submits: every code and confirmation for the
\* registered email, one payload for its upper-case spelling and one for the
\* unregistered email.
ConfirmInputs ==
    { d \in ConfirmDtos :
        d.email # "a@x.com" => d.code = "111111" /\ d.confirmNewPassword = "password2" }

\* user.resetPasswordExpires ? new Date(user.resetPasswordExpires).getTime() : 0
ExpiresAt(user) ==
    IF IsSome(user.resetPasswordExpires) THEN Get(user.resetPasswordExpires) ELSE 0

IsExpiredInclusive(user, t) == ExpiresAt(user) <= t

\* expiresAt < Date.now()
IsExpired(user, t) == ExpiresAt(user) < t

ResetChecksPasswordsFirst(found, d, t) ==
    IF found = None THEN Outcome("NotFound", "Usuario no encontrado.")
    ELSE LET user == Get(found) IN
         IF d.newPassword # d.confirmNewPassword
         THEN Outcome("BadRequest", "La nueva contrasena y su confirmacion no coinciden.")
         ELSE IF ~IsSome(user.resetPasswordCode) \/ Get(user.resetPasswordCode) # d.code
         THEN Outcome("BadRequest", "Codigo invalido.")
         ELSE IF ExpiresAt(user) < t
         THEN Outcome("BadRequest", "El codigo ha expirado.")
         ELSE Outcome("proceed", "")

\* The checks of resetPassword on the document read, in the order of the
\* code: the exception thrown, or "proceed".
ResetChecks(found, d, t) ==
    IF found = None THEN Outcome("NotFound", "Usuario no encontrado.")
    ELSE LET user == Get(found) IN
         IF ~IsSome(user.resetPasswordCode) \/ Get(user.resetPasswordCode) # d.code
         THEN Outcome("BadRequest", "Codigo invalido.")
         ELSE IF IsExpired(user, t)
         THEN Outcome("BadRequest", "El codigo ha expirado.")
         ELSE IF d.newPassword # d.confirmNewPassword
         THEN Outcome("BadRequest", "La nueva contrasena y su confirmacion no coinciden.")
         ELSE Outcome("proceed", "")

ProfilesAfterRejectedClearsExpired(found, out) ==
    IF out.detail = "El codigo ha expirado."
    THEN { IF p = Get(found)
           THEN [p EXCEPT !.resetPasswordCode = None, !.resetPasswordExpires = None]
           ELSE p : p \in profiles }
    ELSE profiles

\* The store after resetPassword threw for a failed check: the throws of
\* lines 244-263 write nothing.
ProfilesAfterRejected(found, out) == profiles

\* findProfileByEmail and the checks on its result.
ResetPasswordStart(r, d) ==
    /\ CanStart(r)
    /\ dto' = [dto EXCEPT ![r] = d]
    /\ prior' = [prior EXCEPT ![r] = Returned]
    /\ LET docs  == FindByEmail(d.email)
           found == IF docs = {} THEN None ELSE Some(CHOOSE p \in docs : TRUE)
           out   == ResetChecks(found, d, now)
           read  == IF found = None THEN None ELSE Get(found).issue
       IN \/ /\ out.status = "proceed"
             /\ loc' = [loc EXCEPT ![r].user = found, ![r].readIssue = read]
             /\ Goto(r, "updateUser")
             /\ UNCHANGED profiles
          \/ /\ out.status # "proceed"
             /\ loc' = [loc EXCEPT ![r].readIssue = read]
             /\ Return(r, out)
             /\ profiles' = ProfilesAfterRejected(found, out)
          \/ \* the store query fails: the error reaches the exception filter
             /\ loc' = [loc EXCEPT ![r].faulted = TRUE]
             /\ Return(r, Outcome("Internal", "raw store message"))
             /\ UNCHANGED profiles
    /\ UNCHANGED <<accounts, nextUid, now, env>>

UpdatePassword(uid, password) ==
    { IF a.uid = uid THEN [a EXCEPT !.password = password] ELSE a : a \in accounts }

ClearResetCodeOnly(p) ==
    [p EXCEPT !.resetPasswordCode = None, !.codeBy = None]

ClearResetNothing(p) == p

\* { $set: { resetPasswordCode: null, resetPasswordExpires: null } }
ClearReset(p) ==
    [p EXCEPT !.resetPasswordCode = None, !.resetPasswordExpires = None,
              !.codeBy = None, !.expiresBy = None]

ClearProfile(uid) ==
    { IF p.firebaseUid = uid THEN ClearReset(p) ELSE p : p \in profiles }

ProfilesAfterFailedUpdateCleared(uid) == ClearProfile(uid)

\* The profile store after the catch of updateUser: nothing is written.
ProfilesAfterFailedUpdate(uid) == profiles

\* firebaseAdmin.auth.updateUser(user.firebaseUid, { password }) and its catch.
ResetPasswordUpdateUser(r) ==
    /\ pc[r] = "updateUser"
    /\ LET user == Get(loc[r].user) IN
       \/ /\ accounts' = UpdatePassword(user.firebaseUid, dto[r].newPassword)
          /\ loc' = [loc EXCEPT ![r].pwUpdates = @ + 1]
          /\ Goto(r, "clear")
          /\ UNCHANGED profiles
       \/ \* the provider fails
          /\ loc' = [loc EXCEPT ![r].faulted = TRUE, ![r].user = None]
          /\ profiles' = ProfilesAfterFailedUpdate(user.firebaseUid)
          /\ Return(r, Outcome("Internal", "No se pudo actualizar la contrasena."))
          /\ UNCHANGED accounts
    /\ UNCHANGED <<nextUid, now, dto, prior, env>>

\* updateProfileByFirebaseUid(user.firebaseUid, { resetPasswordCode: null,
\* resetPasswordExpires: null }) and the return.  Profiles are never removed,
\* so its NotFoundException does not arise.
ResetPasswordClear(r) ==
    /\ pc[r] = "clear"
    /\ LET uid == Get(loc[r].user).firebaseUid IN
       \/ /\ profiles' = ClearProfile(uid)
          /\ loc' = [loc EXCEPT ![r].user = None,
                                ![r].doneIssue =
                                    (CHOOSE p \in profiles : p.firebaseUid = uid).issue]
          /\ Return(r, Outcome("ok", "Contrasena reseteada con exito."))
       \/ \* the store update fails: the error reaches the exception filter
          /\ loc' = [loc EXCEPT ![r].faulted = TRUE, ![r].user = None]
          /\ Return(r, Outcome("Internal", "raw store message"))
          /\ UNCHANGED profiles
    /\ UNCHANGED <<accounts, nextUid, now, dto, prior, env>>

---------------------------------------------------------------------------
(* The password-recovery system: concurrent requestPasswordReset and       *)
(* resetPassword requests, and the clock, with a@x.com registered.  The    *)
(* profile starts as createProfile left it, or as an earlier               *)
(* requestPasswordReset (request 0, at time 0) left it.                    *)

RegisteredProfile == ProfileData(1, "a@x.com", [username |-> "alice"])

InitialProfiles ==
    { RegisteredProfile } \cup
    { SaveReset(RegisteredProfile,
                [resetPasswordCode |-> Some(c),
                 resetPasswordExpires |-> Some(ResetExpires(0))], 0) : c \in Codes }

Tick ==
    /\ now < MaxTime
    /\ now' = now + 1
    /\ UNCHANGED <<accounts, nextUid, profiles, pc, dto, loc, result, prior, env>>

InitReset ==
    /\ accounts = {[uid |-> 1, email |-> "a@x.com", password |-> "password1"]}
    /\ nextUid = 2
    /\ \E p \in InitialProfiles : profiles = {p}
    /\ now = 0
    /\ pc = [r \in ResetReq |-> "idle"]
    /\ dto = [r \in ResetReq |-> NoDto]
    /\ loc = [r \in ResetReq |-> InitLoc]
    /\ result = [r \in ResetReq |-> NoResult]
    /\ prior = [r \in ResetReq |-> {}]
    /\ env = NoEnv

NextReset ==
    \/ \E r \in ResetReq, d \in RequestInputs, c \in Codes : RequestResetStart(r, d, c)
    \/ \E r \in ResetReq : RequestResetSave(r)
    \/ \E r \in ResetReq : RequestResetMail(r)
    \/ \E r \in ResetReq, d \in ConfirmInputs : ResetPasswordStart(r, d)
    \/ \E r \in ResetReq : ResetPasswordUpdateUser(r)
    \/ \E r \in ResetReq : ResetPasswordClear(r)
    \/ Tick

SpecReset == InitReset /\ [][NextReset]_vars

---------------------------------------------------------------------------
(* Properties of the registration saga                                     *)

InFlight(r) == pc[r] \notin {"idle", "done"}
AccountCreated(r) == IsSome(loc[r].firebaseUser)
InsertFailed(r) == IsSome(loc[r].mongoError)

\* C1: a registerUser execution whose createUser succeeded and whose profile
\* insert then failed has issued exactly one deleteUser call, for the uid it
\* just created, by the time it returns; an execution whose insert succeeded
\* or whose createUser failed has issued none; and no call is issued before
\* the insert has failed.
C1_CompensationExactlyOnce ==
    \A r \in Req :
        /\ pc[r] = "done" /\ AccountCreated(r) /\ InsertFailed(r)
              => loc[r].deleteCalls = <<Get(loc[r].firebaseUser)>>
        /\ pc[r] = "done" /\ ~(AccountCreated(r) /\ InsertFailed(r))
              => loc[r].deleteCalls = <<>>
        /\ pc[r] # "done" => loc[r].deleteCalls = <<>>

\* A registration returned after a failed insert, and one returned after a
\* successful insert.
C1_Witness ==
    \E r, s \in Req :
        /\ pc[r] = "done" /\ AccountCreated(r) /\ InsertFailed(r)
        /\ Len(loc[r].deleteCalls) = 1
        /\ pc[s] = "done" /\ result[s].status = "ok"

Orphan(uid) ==
    /\ \E a \in accounts : a.uid = uid
    /\ FindByUid(uid) = {}

\* C2 (as claimed): when the profile insert failed and the compensating
\* deleteUser failed too, the caller receives Internal whatever the insert
\* failure was, and the account is left without a profile.
C2_FailedRollbackIsInternal ==
    \A r \in Req :
        pc[r] = "done" /\ InsertFailed(r) /\ loc[r].rollbackFailed
            => /\ result[r].status = "Internal"
               /\ Orphan(Get(loc[r].firebaseUser))

\* C3: every profile references a uid that a createUser call of some
\* registration returned; and when no registration is in flight, an account
\* without a profile is one whose compensating deleteUser failed.
C3_ProfilesReferenceCreatedAccounts ==
    /\ \A p \in profiles :
          /\ p.firebaseUid < nextUid
          /\ \E r \in Req : loc[r].firebaseUser = Some(p.firebaseUid)
    /\ (\A r \in Req : ~InFlight(r)) =>
          \A a \in accounts :
              \/ FindByUid(a.uid) # {}
              \/ \E r \in Req : /\ loc[r].firebaseUser = Some(a.uid)
                                /\ loc[r].rollbackFailed

\* All registrations returned: one left a profile for its account, another
\* an orphan account after its deleteUser failed.
C3_Witness ==
    /\ \A r \in Req : pc[r] = "done"
    /\ \E p \in profiles : \E a \in accounts : a.uid = p.firebaseUid
    /\ \E r \in Req :
          /\ InsertFailed(r) /\ loc[r].rollbackFailed
          /\ Orphan(Get(loc[r].firebaseUser))

\* C4: no two profiles share a case-normalized username or a case-normalized
\* email, in any state of any interleaving of registrations.
C4_UniqueUsernameAndEmail ==
    \A p, q \in profiles :
        p # q => /\ ToLowerCase(p.username) # ToLowerCase(q.username)
                 /\ ToLowerCase(p.email) # ToLowerCase(q.email)

\* Two registrations with the same normalized username both passed the
\* pre-check; one inserted its profile and the other was rejected by the index.
C4_Witness ==
    \E r, s \in Req :
        /\ r # s
        /\ result[s].status = "ok"
        /\ InsertFailed(r)
        /\ Get(loc[r].mongoError).out = Outcome("Conflict", "username")
        /\ ToLowerCase(dto[r].username) = ToLowerCase(dto[s].username)

OtherwiseValid(d) ==
    /\ ValidateOrReject(PlainToInstance(d))
    /\ d.password = d.confirmPassword

FixedInternalMessages ==
    { "Error al crear usuario.", "Error al crear usuario..",
      "Error al crear perfil, contacte con soporte." }

\* C24: no error registerUser returns carries raw text of the identity
\* provider or of the store: a createUser failure other than a duplicate
\* email, and an insert failure other than a duplicate key, reach the caller
\* as Internal with one of the fixed messages.
C24_NoRawErrorText ==
    \A r \in Req :
        pc[r] = "done" =>
            /\ result[r].detail # "raw store message"
            /\ loc[r].createCalls = 1 /\ ~AccountCreated(r)
               /\ result[r] # Outcome("Conflict", "email_exists")
                  => /\ result[r].status = "Internal"
                     /\ result[r].detail \in FixedInternalMessages
            /\ InsertFailed(r) /\ result[r].status # "Conflict"
                  => /\ result[r].status = "Internal"
                     /\ result[r].detail \in FixedInternalMessages

\* The profiles holding the normalized username of request r.
ProfilesNamedAs(r) == {p \in profiles : p.username = ToLowerCase(dto[r].username)}

\* Requests r and s carried the same username and different emails, both
\* passed the pre-check and created their accounts, both have returned, and
\* the store failed no insert for a reason other than a duplicate key.
Raced(r, s) ==
    /\ r # s /\ pc[r] = "done" /\ pc[s] = "done"
    /\ ToLowerCase(dto[r].username) = ToLowerCase(dto[s].username)
    /\ dto[r].email # dto[s].email
    /\ AccountCreated(r) /\ AccountCreated(s)
    /\ \A x \in {r, s} :
          InsertFailed(x) => Get(loc[x].mongoError).out.status = "Conflict"

\* C25: of two registrations with the same username and different emails
\* that both passed the pre-check, exactly one succeeds and exactly one
\* profile holds the username; the other returns Conflict and has issued one
\* deleteUser call for the account it created, which is gone when that call
\* succeeded.
C25_RaceHasOneWinner ==
    \A r, s \in Req :
        Raced(r, s) =>
            /\ (result[r].status = "ok") # (result[s].status = "ok")
            /\ Cardinality(ProfilesNamedAs(r)) = 1
            /\ \A x \in {r, s} :
                  result[x].status # "ok" =>
                      /\ result[x].status = "Conflict"
                      /\ loc[x].deleteCalls = <<Get(loc[x].firebaseUser)>>
                      /\ ~ loc[x].rollbackFailed
                            => ~ \E a \in accounts : a.uid = Get(loc[x].firebaseUser)

\* Two registrations of "alice" raced: one returned ok, the other Conflict
\* after its account was deleted.
C25_Witness ==
    \E r, s \in Req :
        /\ Raced(r, s)
        /\ dto[r].username = "alice" /\ dto[s].username = "alice"
        /\ result[s].status = "ok"
        /\ result[r] = Outcome("Conflict", "username")
        /\ Len(loc[r].deleteCalls) = 1
        /\ ~ \E a \in accounts : a.uid = Get(loc[r].firebaseUser)

\* C26: a registration whose password and confirmPassword differ fails
\* with a BadRequest before the username pre-check, also when its username
\* is taken, and never calls createUser.
C26_ValidationBeforePrecheck ==
    \A r \in Req :
        pc[r] # "idle" /\ dto[r].password # dto[r].confirmPassword
            => /\ pc[r] = "done"
               /\ result[r].status = "BadRequest"
               /\ loc[r].createCalls = 0

\* C27: when createUser fails, registerUser returns Conflict(email_exists)
\* if the provider reported a duplicate email and Internal otherwise; the
\* step inserts no profile and removes no account, and the request has
\* issued no deleteUser call.
C27_CreateAccountFailure ==
    [][ \A r \in Req :
          pc[r] = "createUser" /\ pc'[r] = "done" =>
              /\ ~ AccountCreated(r)'
              /\ IF loc'[r].faulted
                 THEN result'[r].status = "Internal"
                 ELSE /\ EmailAlreadyExists(dto[r].email)
                      /\ result'[r] = Outcome("Conflict", "email_exists")
              /\ profiles' = profiles /\ accounts' = accounts
              /\ loc'[r].deleteCalls = <<>>
      ]_vars

\* createUser reported a duplicate email to one registration and the
\* registration returned Conflict(email_exists).
C27_Witness ==
    \E r \in Req :
        /\ pc[r] = "done" /\ loc[r].createCalls = 1 /\ ~ AccountCreated(r)
        /\ ~ loc[r].faulted
        /\ result[r] = Outcome("Conflict", "email_exists")
        /\ loc[r].deleteCalls = <<>>

---------------------------------------------------------------------------
(* Properties of password recovery                                         *)

IsRequest(r) == dto[r].kind = "requestReset"
IsConfirm(r) == dto[r].kind = "resetPassword"

InvalidCode == Outcome("BadRequest", "Codigo invalido.")
ExpiredCode == Outcome("BadRequest", "El codigo ha expirado.")
ResetDone == Outcome("ok", "Contrasena reseteada con exito.")
UpdateFailed == Outcome("Internal", "No se pudo actualizar la contrasena.")

\* C6 (as claimed): two requestPasswordReset executions in which no
\* collaborator failed, one for a registered and one for an unregistered
\* email, return the same generic success message and raise no error.
C6_SameAnswerWhetherOrNotRegistered ==
    \A r, s \in ResetReq :
        ( /\ IsRequest(r) /\ pc[r] = "done" /\ ~loc[r].faulted
          /\ IsRequest(s) /\ pc[s] = "done" /\ ~loc[s].faulted )
        => /\ result[r] = result[s]
           /\ result[r] = PublicResponse

SameResetTarget(r, s) ==
    /\ ToLowerCase(dto[r].email) = ToLowerCase(dto[s].email)
    /\ dto[r].code = dto[s].code

\* C7: a resetPassword that starts after a resetPassword for the same email
\* and code returned success, with no code issued for the profile in between,
\* fails with the invalid-code or the expired error and sends no password
\* update to the identity provider.
C7_ResetCodeIsSingleUse ==
    \A r, s \in ResetReq :
        ( /\ IsConfirm(r) /\ IsConfirm(s)
          /\ s \in prior[r] /\ result[s] = ResetDone
          /\ SameResetTarget(r, s)
          /\ loc[r].readIssue = loc[s].doneIssue )
        => /\ pc[r] = "done"
           /\ result[r] \in {InvalidCode, ExpiredCode}
           /\ loc[r].pwUpdates = 0

\* A code was accepted, and the same code resubmitted afterwards was refused.
C7_Witness ==
    \E r, s \in ResetReq :
        /\ IsConfirm(r) /\ IsConfirm(s)
        /\ s \in prior[r] /\ result[s] = ResetDone
        /\ SameResetTarget(r, s)
        /\ loc[r].readIssue = loc[s].doneIssue
        /\ result[r] = InvalidCode

\* A requestPasswordReset that found its user at time `now` holds a code and
\* the expiry now + 1 hour.
C8_Issued(r) ==
    pc[r] = "idle" /\ pc'[r] = "save"
        => /\ IsSome(Get(loc'[r].user).resetPasswordCode)
           /\ Get(loc'[r].user).resetPasswordExpires = Some(now + ResetTtl)

\* Its save stores that code together with that expiry.
C8_Stored(r) ==
    pc[r] = "save" /\ pc'[r] = "mail"
        => \E p \in profiles' :
              /\ p.firebaseUid = Get(loc[r].user).firebaseUid
              /\ p.resetPasswordCode = Get(loc[r].user).resetPasswordCode
              /\ p.resetPasswordExpires = Get(loc[r].user).resetPasswordExpires

\* A resetPassword that reads, at time `now`, a profile holding a code: another
\* code is invalid; the code itself is expired after the expiry, and with
\* matching passwords accepted up to and including the expiry.
C8_Checked(r) ==
    ( /\ pc[r] = "idle" /\ pc'[r] # "idle"
      /\ dto'[r].kind = "resetPassword" /\ ~loc'[r].faulted )
    => \A p \in FindByEmail(dto'[r].email) :
          IsSome(p.resetPasswordCode) =>
             LET code    == Get(p.resetPasswordCode)
                 expires == Get(p.resetPasswordExpires)
             IN /\ dto'[r].code # code
                    => pc'[r] = "done" /\ result'[r] = InvalidCode
                /\ dto'[r].code = code /\ now > expires
                    => pc'[r] = "done" /\ result'[r] = ExpiredCode
                /\ ( /\ dto'[r].code = code /\ now <= expires
                     /\ dto'[r].newPassword = dto'[r].confirmNewPassword )
                    => pc'[r] = "updateUser"

\* An accepted resetPassword during which no collaborator failed returns success.
C8_Accepted ==
    \A r \in ResetReq :
        IsConfirm(r) /\ pc[r] = "done" /\ loc[r].pwUpdates = 1 /\ ~loc[r].faulted
            => result[r] = ResetDone

\* C8: requestPasswordReset at time T stores a code with the expiry T + 1 hour;
\* resetPassword with that code and matching passwords succeeds at any time
\* not after the expiry and is rejected as expired at any time after it; with
\* another code it is rejected as invalid at any time.
C8_ResetCodeWindow ==
    /\ []C8_Accepted
    /\ [][\A r \in ResetReq : C8_Issued(r) /\ C8_Stored(r) /\ C8_Checked(r)]_vars

\* A requestPasswordReset issued a code and returned, and a resetPassword
\* presenting that code then returned success.
C8_Witness ==
    \E q, r \in ResetReq :
        /\ IsRequest(q) /\ result[q] = PublicResponse
        /\ IsConfirm(r) /\ q \in prior[r]
        /\ loc[r].readIssue = Some(q)
        /\ result[r] = ResetDone

\* C9: a resetPassword whose checks passed and whose updateUser call failed
\* returns the Internal error and leaves every profile (its resetPasswordCode
\* and resetPasswordExpires included) and every account as they were.
C9_FailedUpdateKeepsCode ==
    [][\A r \in ResetReq :
          pc[r] = "updateUser" /\ pc'[r] = "done"
              => /\ result'[r] = UpdateFailed
                 /\ profiles' = profiles
                 /\ accounts' = accounts]_vars

\* The provider failed for one resetPassword; the retry with the same code,
\* with no code issued in between, succeeded.
C9_Witness ==
    \E r, s \in ResetReq :
        /\ IsConfirm(r) /\ IsConfirm(s)
        /\ r \in prior[s] /\ result[r] = UpdateFailed
        /\ dto[s] = dto[r]
        /\ loc[s].readIssue = loc[r].readIssue
        /\ result[s] = ResetDone

\* C10: in every profile resetPasswordCode and resetPasswordExpires are both
\* present or both absent, and when present both were written by the same
\* requestPasswordReset.
C10_CodeAndExpiryTogether ==
    \A p \in profiles :
        /\ IsSome(p.resetPasswordCode) <=> IsSome(p.resetPasswordExpires)
        /\ p.codeBy = p.expiresBy

\* A profile holds the code of a requestPasswordReset whose save overlapped a
\* resetPassword that returned success.
C10_Witness ==
    \E p \in profiles : \E q, r \in ResetReq :
        /\ p.codeBy = Some(q) /\ IsSome(p.resetPasswordCode)
        /\ IsRequest(q)
        /\ IsConfirm(r) /\ result[r] = ResetDone
        /\ q \notin prior[r] /\ r \notin prior[q]

UserNotFound == Outcome("NotFound", "Usuario no encontrado.")
PasswordMismatch ==
    Outcome("BadRequest", "La nueva contrasena y su confirmacion no coinciden.")

\* A resetPassword request r is accepted in this step and its store query
\* does not fail.
ConfirmStarts(r) ==
    /\ pc[r] = "idle" /\ pc'[r] # "idle"
    /\ IsConfirm(r)' /\ ~ loc'[r].faulted

\* The profiles with the normalized email of the payload d.
ProfilesOf(d) == {p \in profiles : p.email = ToLowerCase(d.email)}

\* C28: resetPassword reports the first failing check in the order
\* profile exists, code matches, code not expired, passwords match: NotFound
\* without a profile; invalid code for a wrong or absent stored code, also
\* when the code is expired or the passwords differ; expired for a matching
\* expired code, also when the passwords differ; password mismatch only for
\* a matching unexpired code; otherwise it goes on to the password update.
C28_CheckOrder ==
    [][ \A r \in ResetReq :
          ConfirmStarts(r) =>
              LET d == dto'[r] IN
              /\ ProfilesOf(d) = {} => pc'[r] = "done" /\ result'[r] = UserNotFound
              /\ \A user \in ProfilesOf(d) :
                    IF user.resetPasswordCode # Some(d.code)
                    THEN pc'[r] = "done" /\ result'[r] = InvalidCode
                    ELSE IF IsExpired(user, now)
                    THEN pc'[r] = "done" /\ result'[r] = ExpiredCode
                    ELSE IF d.newPassword # d.confirmNewPassword
                    THEN pc'[r] = "done" /\ result'[r] = PasswordMismatch
                    ELSE pc'[r] = "updateUser"
      ]_vars

\* Two requests with differing passwords: one presented the stored code
\* after its expiry and got expired, the other, later, presented another
\* code and got invalid code.
C28_Witness ==
    \E r, s \in ResetReq : \E p \in profiles :
        /\ IsConfirm(r) /\ IsConfirm(s) /\ r \in prior[s]
        /\ dto[r].newPassword # dto[r].confirmNewPassword
        /\ dto[s].newPassword # dto[s].confirmNewPassword
        /\ p.resetPasswordCode = Some(dto[r].code) /\ result[r] = ExpiredCode
        /\ p.resetPasswordCode # Some(dto[s].code) /\ result[s] = InvalidCode
        /\ ExpiresAt(p) < now

\* C29: a resetPassword that fails one of its checks (NotFound, invalid
\* code, expired, password mismatch) leaves every profile as it was, the
\* reset code and its expiry included, leaves the accounts as they were, and
\* has sent no password update to the identity provider.
C29_FailedChecksWriteNothing ==
    [][ \A r \in ResetReq :
          /\ ConfirmStarts(r)
          /\ result'[r] \in {UserNotFound, InvalidCode, ExpiredCode, PasswordMismatch}
          => /\ pc'[r] = "done"
             /\ profiles' = profiles
             /\ accounts' = accounts
             /\ loc'[r].pwUpdates = 0
      ]_vars

\* A request was refused for an expired code, and the profile still holds
\* that code and its expiry, and the account its old password.
C29_Witness ==
    \E r \in ResetReq : \E p \in profiles : \E a \in accounts :
        /\ IsConfirm(r) /\ result[r] = ExpiredCode /\ loc[r].pwUpdates = 0
        /\ p.resetPasswordCode = Some(dto[r].code)
        /\ IsSome(p.resetPasswordExpires)
        /\ a.uid = p.firebaseUid /\ a.password = "password1"

\* No profile has the normalized email of the payload of request r.
Unregistered(r) == \A p \in profiles : p.email # ToLowerCase(dto[r].email)

\* C30: a requestPasswordReset for an email that no profile has returns at
\* once, changes no profile and calls sendUserRecovery zero times.
C30_UnknownEmailTouchesNothing ==
    [][ \A r \in ResetReq :
          IsRequest(r)' /\ Unregistered(r)' /\ pc'[r] # pc[r]
          => /\ pc'[r] = "done"
             /\ profiles' = profiles
             /\ loc'[r].mailCalls = 0
      ]_vars

\* A requestPasswordReset for b@x.com returned without a mail, no store
\* query having failed.
C30_Witness ==
    \E r \in ResetReq :
        /\ IsRequest(r) /\ Unregistered(r) /\ dto[r].email = "b@x.com"
        /\ pc[r] = "done" /\ ~ loc[r].faulted
        /\ loc[r].mailCalls = 0 /\ loc[r].user = None

\* C31: requestPasswordReset invokes sendUserRecovery only after its code
\* and expiry were saved; when the mail then fails, the request fails with
\* Internal and the profiles stay as the save left them.
C31_DispatchFailureIsInternal ==
    [][ \A r \in ResetReq :
          loc'[r].mailCalls > loc[r].mailCalls =>
              /\ pc[r] = "mail" /\ IsRequest(r)
              /\ profiles' = profiles
              /\ loc'[r].faulted => result'[r] = RequestResetError
      ]_vars

\* C36: of the resetPassword executions that present the same code of the
\* same issuance for the same email, at most one reaches updateUser, whatever
\* their interleaving.
C36_CodeAuthorisesOneUpdate ==
    \A r, s \in ResetReq :
        ( /\ r # s /\ IsConfirm(r) /\ IsConfirm(s)
          /\ ToLowerCase(dto[r].email) = ToLowerCase(dto[s].email)
          /\ dto[r].code = dto[s].code
          /\ IsSome(loc[r].readIssue) /\ loc[r].readIssue = loc[s].readIssue )
        => ~ (loc[r].pwUpdates >= 1 /\ loc[s].pwUpdates >= 1)

\* C37: a resetPassword that has returned either updated the password and
\* returned success (its clearing of the code done), or did not update the
\* password and returned an error.
C37_ResetIsAllOrNothing ==
    \A r \in ResetReq :
        IsConfirm(r) /\ pc[r] = "done" =>
            \/ loc[r].pwUpdates = 1 /\ result[r] = ResetDone
            \/ loc[r].pwUpdates = 0 /\ result[r].status # "ok"

---------------------------------------------------------------------------
(* Two requestPasswordReset executions for a@x.com, which draw different   *)
(* codes, race on the profile; the requests after them are resetPassword   *)
(* calls for a@x.com with one code or the other.                           *)

MaxRaceReq == 3

RaceReq == 1..MaxRaceReq

\* The two racing requests.
RaceWriters == {1, 2}

RaceConfirms == RaceReq \ RaceWriters

\* The code Math.random() gives to each of the two.
RaceCode(r) == IF r = 1 THEN "111111" ELSE "222222"

RaceRequestInput == [kind |-> "requestReset", email |-> "a@x.com"]

RaceConfirmInputs ==
    { d \in ConfirmDtos : d.email = "a@x.com" /\ d.confirmNewPassword = "password2" }

InitResetRace ==
    /\ accounts = {[uid |-> 1, email |-> "a@x.com", password |-> "password1"]}
    /\ nextUid = 2
    /\ \E p \in InitialProfiles : profiles = {p}
    /\ now = 0
    /\ pc = [r \in RaceReq |-> "idle"]
    /\ dto = [r \in RaceReq |-> NoDto]
    /\ loc = [r \in RaceReq |-> InitLoc]
    /\ result = [r \in RaceReq |-> NoResult]
    /\ prior = [r \in RaceReq |-> {}]
    /\ env = NoEnv

NextResetRace ==
    \/ \E r \in RaceWriters : RequestResetStart(r, RaceRequestInput, RaceCode(r))
    \/ \E r \in RaceReq : RequestResetSave(r)
    \/ \E r \in RaceReq : RequestResetMail(r)
    \/ \E r \in RaceConfirms, d \in RaceConfirmInputs : ResetPasswordStart(r, d)
    \/ \E r \in RaceReq : ResetPasswordUpdateUser(r)
    \/ \E r \in RaceReq : ResetPasswordClear(r)
    \/ Tick

SpecResetRace == InitResetRace /\ [][NextResetRace]_vars

\* The save of request r succeeds in this step.
Saves(r) == pc[r] = "save" /\ pc'[r] = "mail"

\* The clearing update of request r succeeds in this step.
Clears(r) == pc[r] = "clear" /\ pc'[r] = "done" /\ result'[r] = ResetDone

\* Request r has completed and its save was applied.
SavedAndDone(r) == pc[r] = "done" /\ loc[r].mailCalls = 1

\* Both racing requests have completed with their saves applied, and no
\* resetPassword has cleared the code since.
RaceOver ==
    /\ \A w \in RaceWriters : SavedAndDone(w)
    /\ \A c \in RaceConfirms : ~(pc[c] = "done" /\ result[c] = ResetDone)

\* C32: a save of one of the two requests stores exactly the code and the
\* expiry that request computed, whatever the other had stored, and nothing
\* but a save or the clearing update of a resetPassword changes a profile;
\* so once both have completed the store holds the pair of the one that
\* saved last.  A resetPassword that starts then is accepted past the code
\* check only with the code of that request, and is refused as invalid with
\* the code of the other.
C32_LastWriteWins ==
    /\ [][ \A r \in RaceWriters : Saves(r) =>
             \A p \in profiles' :
                 /\ p.resetPasswordCode = Some(RaceCode(r))
                 /\ p.resetPasswordExpires = Get(loc[r].user).resetPasswordExpires
                 /\ p.codeBy = Some(r) /\ p.expiresBy = Some(r) /\ p.issue = Some(r)
         ]_vars
    /\ [][ profiles' # profiles => \E r \in RaceReq : Saves(r) \/ Clears(r) ]_vars
    /\ [] ( RaceOver =>
              \A p \in profiles :
                  /\ p.issue \in {Some(w) : w \in RaceWriters}
                  /\ p.resetPasswordCode = Some(RaceCode(Get(p.issue)))
                  /\ p.codeBy = p.issue /\ p.expiresBy = p.issue )
    /\ [][ \A c \in RaceConfirms :
             ( /\ RaceOver /\ pc[c] = "idle" /\ pc'[c] # "idle"
               /\ ~loc'[c].faulted )
             => \A p \in profiles :
                   LET last == Get(p.issue) IN
                   /\ dto'[c].code = RaceCode(last) /\ ~IsExpired(p, now)
                         => pc'[c] = "updateUser"
                   /\ dto'[c].code = RaceCode(last) /\ IsExpired(p, now)
                         => pc'[c] = "done" /\ result'[c] = ExpiredCode
                   /\ dto'[c].code # RaceCode(last)
                         => pc'[c] = "done" /\ result'[c] = InvalidCode
         ]_vars

\* The two requests overlapped, the second one to save overwrote the pair of
\* the first, and both completed; a resetPassword that started afterwards
\* with the code of the first was refused as invalid.
C32_Witness ==
    \E w, l \in RaceWriters : \E c \in RaceConfirms : \E p \in profiles :
        /\ w # l /\ SavedAndDone(w) /\ SavedAndDone(l)
        /\ w \notin prior[l] /\ l \notin prior[w]
        /\ p.issue = Some(w) /\ p.resetPasswordCode = Some(RaceCode(w))
        /\ {w, l} \subseteq prior[c]
        /\ dto[c].code = RaceCode(l) /\ loc[c].readIssue = Some(w)
        /\ result[c] = InvalidCode

---------------------------------------------------------------------------
(* OtpAuthenticatorService: strings and buffers                            *)
(*                                                                         *)
(* A string or a buffer is a sequence of symbols.  A symbol is one         *)
(* character, or one of the byte blocks the cipher produces (the random    *)
(* iv, the ciphertext of a plaintext under a key and an iv, its            *)
(* authentication tag); `enc` tells how the symbol is currently written:   *)
(* as text, as raw bytes, or as base64 text (which never holds a '.').     *)

Chr(c) == [kind |-> "chr", enc |-> "text", chr |-> c, key |-> "", iv |-> "", plain |-> <<>>]

Dot == Chr(".")

\* The string with the characters cs.
Str(cs) == [i \in DOMAIN cs |-> Chr(cs[i])]

Recode(s, enc) == [i \in DOMAIN s |-> [s[i] EXCEPT !.enc = enc]]

\* Buffer.from(s, 'utf8') and buf.toString('utf8')
Utf8Encode(s) == Recode(s, "raw")
Utf8Decode(buf) == Recode(buf, "text")

\* buf.toString('base64') and Buffer.from(s, 'base64')
Base64Encode(buf) == Recode(buf, "base64")
Base64Decode(s) == Recode(s, "raw")

\* randomBytes(12) drawing the value n
RandomBytes(n) ==
    << [kind |-> "iv", enc |-> "raw", chr |-> "", key |-> "", iv |-> n, plain |-> <<>>] >>

RECURSIVE SplitFrom(_, _, _)
\* The segments of s from position i on, `cur` being the segment under way.
SplitFrom(s, i, cur) ==
    IF i > Len(s) THEN <<cur>>
    ELSE IF s[i] = Dot THEN <<cur>> \o SplitFrom(s, i + 1, <<>>)
    ELSE SplitFrom(s, i + 1, Append(cur, s[i]))

\* payload.split('.')
Split(s) == SplitFrom(s, 1, <<>>)

---------------------------------------------------------------------------
(* OtpAuthenticatorService: the cipher of the stored TFA secret            *)

Aes256KeyBytes == 32

\* The length of Buffer.from(key, 'base64') for the keys of the model.
KeyLength(key) ==
    CASE key = "K1" -> 32
      [] key = "K2" -> 32
      [] key = "K16" -> 16
      [] OTHER -> 0

GetEncryptionKeyDefault(e) ==
    IF e.TFA_ENCRYPTION_KEY = None \/ e.TFA_ENCRYPTION_KEY = Some("")
    THEN Some("K1") ELSE e.TFA_ENCRYPTION_KEY

\* getEncryptionKey: null when the variable is unset or empty.
GetEncryptionKey(e) ==
    IF e.TFA_ENCRYPTION_KEY = None \/ e.TFA_ENCRYPTION_KEY = Some("")
    THEN None ELSE e.TFA_ENCRYPTION_KEY

\* cipher.update(plain, 'utf8') followed by cipher.final(): as many bytes as
\* the plaintext has.
CipherText(key, n, plain) ==
    IF plain = <<>> THEN <<>>
    ELSE << [kind |-> "ct", enc |-> "raw", chr |-> "", key |-> key, iv |-> n,
             plain |-> Utf8Encode(plain)] >>

\* cipher.getAuthTag()
AuthTag(key, n, plain) ==
    << [kind |-> "tag", enc |-> "raw", chr |-> "", key |-> key, iv |-> n,
        plain |-> Utf8Encode(plain)] >>

TokenSegmentsTagLast(iv, tag, encrypted) ==
    Base64Encode(iv) \o <<Dot>> \o Base64Encode(encrypted) \o <<Dot>> \o Base64Encode(tag)

\* `${iv.toString('base64')}.${tag.toString('base64')}.${encrypted.toString('base64')}`
TokenSegments(iv, tag, encrypted) ==
    Base64Encode(iv) \o <<Dot>> \o Base64Encode(tag) \o <<Dot>> \o Base64Encode(encrypted)

Threw == [threw |-> TRUE, value |-> <<>>]
Returns(v) == [threw |-> FALSE, value |-> v]

\* encryptIfConfigured(plain), randomBytes drawing n.  createCipheriv throws
\* for a key that is not 32 bytes long.
EncryptIfConfigured(e, plain, n) ==
    LET key == GetEncryptionKey(e) IN
    IF key = None THEN Returns(plain)
    ELSE IF KeyLength(Get(key)) # Aes256KeyBytes THEN Threw
    ELSE Returns(TokenSegments(RandomBytes(n),
                               AuthTag(Get(key), n, plain),
                               CipherText(Get(key), n, plain)))

\* createDecipheriv, setAuthTag, update and final on the decoded segments:
\* the plaintext when the tag authenticates the ciphertext under this key
\* and iv, otherwise an exception.
Decipher(key, iv, tag, encrypted) ==
    IF /\ KeyLength(key) = Aes256KeyBytes
       /\ Len(tag) = 1 /\ tag[1].kind = "tag" /\ tag[1].key = key
       /\ iv = RandomBytes(tag[1].iv)
       /\ tag = AuthTag(key, tag[1].iv, Utf8Decode(tag[1].plain))
       /\ encrypted = CipherText(key, tag[1].iv, Utf8Decode(tag[1].plain))
    THEN Returns(Utf8Decode(tag[1].plain))
    ELSE Threw

DecipherRethrow(d, payload) == d

\* try { ... } catch (e) { return payload }
DecipherCatch(d, payload) == IF d.threw THEN Returns(payload) ELSE d

\* The call maybeDecrypt(payload): what it returns, or that it threw.
MaybeDecryptCall(e, payload) ==
    IF payload = <<>> THEN Returns(payload)
    ELSE LET parts == Split(payload) IN
         IF Len(parts) # 3 THEN Returns(payload)
         ELSE LET key == GetEncryptionKey(e) IN
              IF key = None THEN Returns(payload)
              ELSE DecipherCatch(Decipher(Get(key), Base64Decode(parts[1]),
                                          Base64Decode(parts[2]),
                                          Base64Decode(parts[3])),
                                 payload)

\* maybeDecrypt(payload)
MaybeDecrypt(e, payload) == MaybeDecryptCall(e, payload).value

---------------------------------------------------------------------------
(* OtpAuthenticatorService: TOTP codes                                     *)

\* Values randomBytes(12) draws.
Nonces == {"n1", "n2"}

\* Secrets as authenticator.generateSecret() returns them.
SecretA == Str(<<"A">>)
SecretB == Str(<<"B">>)

\* Time steps of 30 seconds in one unit of the clock.
StepsPerTick == 60

\* The window of authenticator.verify: the library's default, no option is set.
TotpWindow == 0

\* Math.floor(Date.now() / 1000 / 30)
TotpCounter(t) == t * StepsPerTick

\* The 6-digit code of a secret at a time step.
Totp(secret, step) == [secret |-> secret, step |-> step]

\* A missing code (undefined or '').
EmptyCode == [secret |-> <<>>, step |-> 0 - 1]

\* authenticator.verify({ token: code, secret: plain }) when the clock is in
\* the time step `counter`.
AuthenticatorCheck(code, plain, counter) ==
    \E d \in (0 - TotpWindow)..TotpWindow : code = Totp(plain, counter + d)

\* authenticator.verify({ token: code, secret: plain }) at the clock reading t
AuthenticatorVerify(code, plain, t) == AuthenticatorCheck(code, plain, TotpCounter(t))

VerifyCodeAlways(e, code, secret, t) == TRUE

\* OtpAuthenticatorService.verifyCode(code, secret) in the time step `counter`
VerifyCodeAt(e, code, secret, counter) ==
    AuthenticatorCheck(code, MaybeDecrypt(e, secret), counter)

\* OtpAuthenticatorService.verifyCode(code, secret) at the clock reading t
VerifyCode(e, code, secret, t) == VerifyCodeAt(e, code, secret, TotpCounter(t))

\* OtpAuthenticatorService.generateSecretAuthenticator, generateSecret drawing
\* `plain` and randomBytes drawing n: the secret bound into the uri and the
\* secretAuthenticator returned, or the exception of encryptIfConfigured.
GenerateSecretAuthenticator(e, plain, n) ==
    LET enc == EncryptIfConfigured(e, plain, n) IN
    IF enc.threw THEN Threw
    ELSE Returns([uri |-> plain, secretAuthenticator |-> enc.value])

---------------------------------------------------------------------------
(* AuthService.decodeFbUserToken                                           *)

\* Authorization headers: none, three Bearer headers, and a bare uid.
Headers == {"", "Bearer t1", "Bearer t2", "Bearer bad", "1"}

\* extractTokenFromHeader: the token, or None when it throws.
ExtractTokenFromHeader(h) ==
    CASE h = "Bearer t1" -> Some("t1")
      [] h = "Bearer t2" -> Some("t2")
      [] h = "Bearer bad" -> Some("bad")
      [] OTHER -> None

\* firebaseAdmin.auth.verifyIdToken: the uid of the decoded token, or None
\* when it rejects.
VerifyIdToken(tokenId) ==
    CASE tokenId = "t1" -> Some(1)
      [] tokenId = "t2" -> Some(2)
      [] OTHER -> None

\* firebaseAdmin.auth.getUser
GetUser(uid) == IF \E a \in accounts : a.uid = uid THEN Some(uid) ELSE None

\* decodeFbUserToken(authorization): the uid of the user record, or None when
\* it throws its UnauthorizedException.
DecodeFbUserToken(h) ==
    LET tokenId == ExtractTokenFromHeader(h) IN
    IF tokenId = None THEN None
    ELSE LET decoded == VerifyIdToken(Get(tokenId)) IN
         IF decoded = None THEN None ELSE GetUser(Get(decoded))

Unauthorized == Outcome("Unauthorized", "Token invalido o expirado")

\* A uid as the string DecodedIdToken.uid holds.
UidString(uid) ==
    CASE uid = 1 -> "1"
      [] uid = 2 -> "2"
      [] OTHER -> ""

\* AuthGuard('firebase-jwt'): the Bearer token of the Authorization header
\* goes to FirebaseJwtStrategy.validate, which gives req.user (the uid of the
\* decoded token), or None when the request is refused with 401.
FirebaseJwtGuard(h) ==
    LET tokenId == ExtractTokenFromHeader(h) IN
    IF tokenId = None THEN None ELSE VerifyIdToken(Get(tokenId))

GuardRefused == Outcome("Unauthorized", "Token de autenticacion invalido o expirado.")

---------------------------------------------------------------------------
(* Profiles with the TFA fields                                            *)

\* The TFA fields of a profile createProfile has just inserted.
TfaDefaults == [tfaSecret |-> None, isTfaEnabled |-> FALSE]

\* A User document with its TFA fields.
TfaProfile(p, tfa, plain) ==
    [ firebaseUid          |-> p.firebaseUid,
      email                |-> p.email,
      username             |-> p.username,
      resetPasswordCode    |-> p.resetPasswordCode,
      resetPasswordExpires |-> p.resetPasswordExpires,
      tfaSecret            |-> tfa.tfaSecret,
      isTfaEnabled         |-> tfa.isTfaEnabled,
      tfaPlain             |-> plain ]  \* log: the secret tfaSecret was made from

\* findOneByUid(uid): the document, or None.
FindOneByUid(uid) ==
    IF FindByUid(uid) = {} THEN None ELSE Some(CHOOSE p \in FindByUid(uid) : TRUE)

\* { $set: updateData } on a document, for the TFA fields.
SetTfaFields(p, updateData) ==
    [p EXCEPT !.tfaSecret = IF "tfaSecret" \in DOMAIN updateData
                            THEN updateData.tfaSecret ELSE @,
              !.isTfaEnabled = IF "isTfaEnabled" \in DOMAIN updateData
                               THEN updateData.isTfaEnabled ELSE @]

UpdateProfileKeepsSecret(uid, updateData) ==
    { IF p.firebaseUid # uid THEN p
      ELSE IF IsSome(p.tfaSecret)
      THEN SetTfaFields(p, [k \in DOMAIN updateData \ {"tfaSecret"} |-> updateData[k]])
      ELSE SetTfaFields(p, updateData) : p \in profiles }

\* updateProfileByFirebaseUid(uid, updateData): the store after the update.
UpdateProfileByFirebaseUid(uid, updateData) ==
    { IF p.firebaseUid = uid THEN SetTfaFields(p, updateData) ELSE p : p \in profiles }

\* What a TFA or login request has read and done.
InitTfaLoc ==
    [ uid        |-> None,    \* userRecord.uid
      found      |-> FALSE,   \* log: findOneByUid returned a document
      readSecret |-> None,    \* log: its tfaSecret
      readEnabled |-> FALSE,  \* log: its isTfaEnabled
      readPlain  |-> None,    \* log: the secret its tfaSecret was made from
      generated  |-> None,    \* generateTfaSecretForUser: { uri, secretAuthenticator }
      verified   |-> FALSE,   \* log: verifyCode returned true
      tokenCalls |-> 0,       \* log: createCustomToken calls issued
      body       |-> None,    \* the response body of login / loginTfa
      cause      |-> "" ]     \* log: what made the request fail

\* The locals after findOneByUid returned `found` for `uid`.
AfterRead(l, uid, found) ==
    IF found = None THEN [l EXCEPT !.uid = Some(uid)]
    ELSE [l EXCEPT !.uid = Some(uid), !.found = TRUE,
                   !.readSecret = Get(found).tfaSecret,
                   !.readEnabled = Get(found).isTfaEnabled,
                   !.readPlain = Get(found).tfaPlain]

\* A request starts: its payload and the requests returned before it.
Accept(r, d) ==
    /\ CanStart(r)
    /\ dto' = [dto EXCEPT ![r] = d]
    /\ prior' = [prior EXCEPT ![r] = Returned]

\* The request fails: what its caller receives, its locals being l.
Fail(r, l, cause, out) ==
    /\ loc' = [loc EXCEPT ![r] = [l EXCEPT !.cause = cause]]
    /\ Return(r, out)

RawStoreError == Outcome("Internal", "raw store message")

---------------------------------------------------------------------------
(* AuthService.generateTfaSecretForUser                                    *)

GenerateInputs ==
    { [kind |-> "generate", authorization |-> h, code |-> EmptyCode] :
        h \in {"Bearer t1", "Bearer t2"} }

GenerateUpdateDataResetsEnabled(gen) ==
    [tfaSecret |-> Some(gen.secretAuthenticator), isTfaEnabled |-> FALSE]

\* { tfaSecret: secretAuthenticator }
GenerateUpdateData(gen) == [tfaSecret |-> Some(gen.secretAuthenticator)]

AlreadyEnabledNever(profile) == FALSE

\* if (profile.isTfaEnabled)
AlreadyEnabled(profile) == profile.isTfaEnabled

\* decodeFbUserToken, findOneByUid, the two checks and
\* generateSecretAuthenticator.
TfaGenerateStart(r, d, plain, n) ==
    /\ Accept(r, d)
    /\ LET uid == DecodeFbUserToken(d.authorization) IN
       \/ /\ uid = None
          /\ Fail(r, loc[r], "token", Unauthorized)
       \/ \* the provider fails: caught by decodeFbUserToken
          /\ ExtractTokenFromHeader(d.authorization) # None
          /\ Fail(r, loc[r], "provider", Unauthorized)
       \/ /\ uid # None
          /\ LET found == FindOneByUid(Get(uid))
                 l     == AfterRead(loc[r], Get(uid), found)
                 gen   == GenerateSecretAuthenticator(env, plain, n)
             IN IF found = None
                THEN Fail(r, l, "missing", Outcome("NotFound", "Usuario no encontrado"))
                ELSE IF AlreadyEnabled(Get(found))
                THEN Fail(r, l, "enabled",
                          Outcome("BadRequest", "TFA ya esta habilitado para este usuario"))
                ELSE IF gen.threw
                THEN Fail(r, l, "cipher", Outcome("Internal", "raw cipher message"))
                ELSE /\ loc' = [loc EXCEPT ![r] = [l EXCEPT !.generated = Some(gen.value)]]
                     /\ Goto(r, "tfaSecret")
       \/ \* the store query fails: the error reaches the exception filter
          /\ uid # None
          /\ Fail(r, [loc[r] EXCEPT !.uid = uid], "store", RawStoreError)
    /\ UNCHANGED <<accounts, nextUid, profiles, now, env>>

\* The log of the secret a stored tfaSecret was made from.
StampPlain(ps, uid, plain) ==
    { IF p.firebaseUid = uid THEN [p EXCEPT !.tfaPlain = Some(plain)] ELSE p : p \in ps }

\* updateProfileByFirebaseUid(profile.firebaseUid, { tfaSecret }) and the return.
TfaGenerateUpdate(r) ==
    /\ pc[r] = "tfaSecret"
    /\ LET uid == Get(loc[r].uid)
           gen == Get(loc[r].generated)
       IN \/ /\ profiles' = StampPlain(
                               UpdateProfileByFirebaseUid(uid, GenerateUpdateData(gen)),
                               uid, gen.uri)
             /\ Return(r, Outcome("ok", "uri"))
             /\ UNCHANGED loc
          \/ \* the store update fails: the error reaches the exception filter
             /\ Fail(r, loc[r], "store", RawStoreError)
             /\ UNCHANGED profiles
    /\ UNCHANGED <<accounts, nextUid, now, dto, prior, env>>

---------------------------------------------------------------------------
(* AuthService.confirmTfaForUser                                           *)

TfaCodes == {Totp(SecretA, 0), Totp(SecretB, 0)}

TfaConfirmInputs ==
    { [kind |-> "confirm", authorization |-> "Bearer t1", code |-> c] :
        c \in TfaCodes \cup {EmptyCode} }
    \cup { [kind |-> "confirm", authorization |-> "Bearer t2", code |-> Totp(SecretA, 0)] }

ConfirmUpdateDataClearsSecret == [tfaSecret |-> None, isTfaEnabled |-> TRUE]

\* { isTfaEnabled: true }
ConfirmUpdateData == [isTfaEnabled |-> TRUE]

\* if (!profile || !profile.tfaSecret)
TfaNotStarted(found) == found = None \/ Get(found).tfaSecret \in {None, Some(<<>>)}

\* The code check, decodeFbUserToken, findOneByUid, the not-started check and
\* verifyCode.
TfaConfirmStart(r, d) ==
    /\ Accept(r, d)
    /\ LET uid == DecodeFbUserToken(d.authorization) IN
       \/ /\ d.code = EmptyCode
          /\ Fail(r, loc[r], "no_code",
                  Outcome("BadRequest", "El codigo TFA es obligatorio"))
       \/ /\ d.code # EmptyCode /\ uid = None
          /\ Fail(r, loc[r], "token", Unauthorized)
       \/ \* the provider fails: caught by decodeFbUserToken
          /\ d.code # EmptyCode /\ ExtractTokenFromHeader(d.authorization) # None
          /\ Fail(r, loc[r], "provider", Unauthorized)
       \/ /\ d.code # EmptyCode /\ uid # None
          /\ LET found == FindOneByUid(Get(uid))
                 l     == AfterRead(loc[r], Get(uid), found)
             IN IF TfaNotStarted(found)
                THEN Fail(r, l, "not_started",
                          Outcome("BadRequest", "TFA no iniciado para este usuario"))
                ELSE IF ~VerifyCode(env, d.code, Get(Get(found).tfaSecret), now)
                THEN Fail(r, l, "bad_code", Outcome("BadRequest", "Codigo TFA invalido"))
                ELSE /\ loc' = [loc EXCEPT ![r] = [l EXCEPT !.verified = TRUE]]
                     /\ Goto(r, "enable")
       \/ \* the store query fails: the error reaches the exception filter
          /\ d.code # EmptyCode /\ uid # None
          /\ Fail(r, [loc[r] EXCEPT !.uid = uid], "store", RawStoreError)
    /\ UNCHANGED <<accounts, nextUid, profiles, now, env>>

\* updateProfileByFirebaseUid(profile.firebaseUid, { isTfaEnabled: true }) and
\* the return.
TfaConfirmUpdate(r) ==
    /\ pc[r] = "enable"
    /\ \/ /\ profiles' = UpdateProfileByFirebaseUid(Get(loc[r].uid), ConfirmUpdateData)
          /\ Return(r, Outcome("ok", "TFA habilitado"))
          /\ UNCHANGED loc
       \/ \* the store update fails: the error reaches the exception filter
          /\ Fail(r, loc[r], "store", RawStoreError)
          /\ UNCHANGED profiles
    /\ UNCHANGED <<accounts, nextUid, now, dto, prior, env>>

---------------------------------------------------------------------------
(* AuthController: POST /auth/tfa/generate and POST /auth/tfa/confirm      *)

\* Authorization headers of the requests to the two guarded routes.
EndpointHeaders == {"Bearer t1", "Bearer bad"}

\* What the controller hands to the service method as `authorization`, with
\* the header of the HTTP request kept as a log.
GenerateTfaSecretArgs(user, h) ==
    [kind |-> "generate", authorization |-> UidString(user), code |-> EmptyCode,
     header |-> h]

ConfirmTfaArgs(user, h, code) ==
    [kind |-> "confirm", authorization |-> UidString(user), code |-> code,
     header |-> h]

\* The guard refuses the request: the controller method does not run.
GuardRefuses(r, kind, h) ==
    /\ Accept(r, [kind |-> kind, authorization |-> "", code |-> EmptyCode, header |-> h])
    /\ Fail(r, loc[r], "guard", GuardRefused)
    /\ UNCHANGED <<accounts, nextUid, profiles, now, env>>

\* AuthController.generateTfaSecret: the guard, then
\* generateTfaSecretForUser(user.uid).
GenerateTfaSecret(r, h, plain, n) ==
    LET user == FirebaseJwtGuard(h) IN
    IF user = None THEN GuardRefuses(r, "generate", h)
    ELSE TfaGenerateStart(r, GenerateTfaSecretArgs(Get(user), h), plain, n)

\* AuthController.confirmTfa: the guard, then confirmTfaForUser(user.uid, dto).
ConfirmTfa(r, h, code) ==
    LET user == FirebaseJwtGuard(h) IN
    IF user = None THEN GuardRefuses(r, "confirm", h)
    ELSE TfaConfirmStart(r, ConfirmTfaArgs(Get(user), h, code))

---------------------------------------------------------------------------
(* AuthService.login                                                       *)

LoginInputs ==
    { [kind |-> "login", authorization |-> h, code |-> EmptyCode] :
        h \in {"", "Bearer t1", "Bearer t2", "Bearer bad"} }

LoginTfaRequiredNever(found) == FALSE

LoginTfaRequiredNegated(found) == found # None /\ ~Get(found).isTfaEnabled

\* if (user?.isTfaEnabled)
LoginTfaRequired(found) == found # None /\ Get(found).isTfaEnabled

\* catch (error) { throw new UnauthorizedException('Token inválido o expirado') }
LoginCatch(error) == Unauthorized

\* firebaseAdmin.auth.createCustomToken(uid)
CreateCustomToken(uid) == Some(uid)

\* decodeFbUserToken, findOneByUid and the branch on isTfaEnabled.
LoginStart(r, d) ==
    /\ Accept(r, d)
    /\ LET uid == DecodeFbUserToken(d.authorization) IN
       \/ /\ uid = None
          /\ Fail(r, loc[r], "token", LoginCatch(Unauthorized))
       \/ \* the provider fails
          /\ ExtractTokenFromHeader(d.authorization) # None
          /\ Fail(r, loc[r], "provider", LoginCatch(Unauthorized))
       \/ /\ uid # None
          /\ LET found == FindOneByUid(Get(uid))
                 l     == AfterRead(loc[r], Get(uid), found)
             IN IF LoginTfaRequired(found)
                THEN /\ loc' = [loc EXCEPT ![r] =
                                  [l EXCEPT !.body = Some([tfaRequired |-> TRUE,
                                                           token |-> None,
                                                           authenticated |-> FALSE])]]
                     /\ Return(r, Outcome("ok", ""))
                ELSE /\ loc' = [loc EXCEPT ![r] = l]
                     /\ Goto(r, "customToken")
       \/ \* the store query fails
          /\ uid # None
          /\ Fail(r, [loc[r] EXCEPT !.uid = uid], "store", LoginCatch(RawStoreError))
    /\ UNCHANGED <<accounts, nextUid, profiles, now, env>>

\* createCustomToken(userRecord.uid) and the return of login.
LoginCreateToken(r) ==
    /\ pc[r] = "customToken"
    /\ LET l == [loc[r] EXCEPT !.tokenCalls = @ + 1] IN
       \/ /\ loc' = [loc EXCEPT ![r] =
                       [l EXCEPT !.body = Some([tfaRequired |-> FALSE,
                                                token |-> CreateCustomToken(Get(l.uid)),
                                                authenticated |-> TRUE])]]
          /\ Return(r, Outcome("ok", ""))
       \/ \* the provider fails
          /\ Fail(r, l, "issue", LoginCatch(Outcome("Internal", "raw provider message")))
    /\ UNCHANGED <<accounts, nextUid, profiles, now, dto, prior, env>>

---------------------------------------------------------------------------
(* AuthService.loginTfa                                                    *)

LoginTfaInputs ==
    { [kind |-> "loginTfa", authorization |-> "Bearer t1", code |-> c] : c \in TfaCodes }
    \cup { [kind |-> "loginTfa", authorization |-> h, code |-> Totp(SecretA, 0)] :
             h \in {"Bearer t2", "Bearer bad"} }

LoginTfaNotEnabledSecretOnly(found) ==
    found = None \/ Get(found).tfaSecret \in {None, Some(<<>>)}

\* if (!user || !user.isTfaEnabled || !user.tfaSecret)
LoginTfaNotEnabled(found) ==
    \/ found = None
    \/ ~Get(found).isTfaEnabled
    \/ Get(found).tfaSecret \in {None, Some(<<>>)}

LoginTfaRethrow(error) == error

\* catch (error) { throw new UnauthorizedException('Token inválido o expirado') }
LoginTfaCatch(error) == Unauthorized

LoginTfaProfilesDisabled(uid) ==
    UpdateProfileByFirebaseUid(uid, [isTfaEnabled |-> FALSE])

\* The profile store after loginTfa has rejected a code: nothing is written.
LoginTfaProfiles(uid) == profiles

\* decodeFbUserToken, findOneByUid, the enabled check and verifyCode.
LoginTfaStart(r, d) ==
    /\ Accept(r, d)
    /\ LET uid == DecodeFbUserToken(d.authorization) IN
       \/ /\ uid = None
          /\ Fail(r, loc[r], "token", LoginTfaCatch(Unauthorized))
          /\ UNCHANGED profiles
       \/ \* the provider fails
          /\ ExtractTokenFromHeader(d.authorization) # None
          /\ Fail(r, loc[r], "provider", LoginTfaCatch(Unauthorized))
          /\ UNCHANGED profiles
       \/ /\ uid # None
          /\ LET found == FindOneByUid(Get(uid))
                 l     == AfterRead(loc[r], Get(uid), found)
             IN IF LoginTfaNotEnabled(found)
                THEN /\ Fail(r, l, "not_enabled",
                             LoginTfaCatch(Outcome("Unauthorized",
                                                   "TFA no habilitado para este usuario")))
                     /\ UNCHANGED profiles
                ELSE IF ~VerifyCode(env, d.code, Get(Get(found).tfaSecret), now)
                THEN /\ Fail(r, l, "bad_code",
                             LoginTfaCatch(Outcome("Unauthorized", "Codigo TFA invalido")))
                     /\ profiles' = LoginTfaProfiles(Get(uid))
                ELSE /\ loc' = [loc EXCEPT ![r] = [l EXCEPT !.verified = TRUE]]
                     /\ Goto(r, "customTokenTfa")
                     /\ UNCHANGED profiles
       \/ \* the store query fails
          /\ uid # None
          /\ Fail(r, [loc[r] EXCEPT !.uid = uid], "store", LoginTfaCatch(RawStoreError))
          /\ UNCHANGED profiles
    /\ UNCHANGED <<accounts, nextUid, now, env>>

\* createCustomToken(userRecord.uid) and the return of loginTfa.
LoginTfaCreateToken(r) ==
    /\ pc[r] = "customTokenTfa"
    /\ LET l == [loc[r] EXCEPT !.tokenCalls = @ + 1] IN
       \/ /\ loc' = [loc EXCEPT ![r] =
                       [l EXCEPT !.body = Some([customToken |-> CreateCustomToken(Get(l.uid)),
                                                authenticated |-> TRUE])]]
          /\ Return(r, Outcome("ok", ""))
       \/ \* the provider fails
          /\ Fail(r, l, "issue", LoginTfaCatch(Outcome("Internal", "raw provider message")))
    /\ UNCHANGED <<accounts, nextUid, profiles, now, dto, prior, env>>

---------------------------------------------------------------------------
(* The TFA and login system: concurrent generateTfaSecretForUser,          *)
(* confirmTfaForUser, login and loginTfa requests.  Account 1 (a@x.com)    *)
(* has a profile, account 2 (b@x.com) has none.  The profile holds a       *)
(* pending recovery code; its TFA fields are as createProfile left them,   *)
(* or as an earlier generateTfaSecretForUser, or an earlier                *)
(* confirmTfaForUser after it, left them.                                  *)

MaxTfaReq == 2

TfaReq == 1..MaxTfaReq

\* Values of TFA_ENCRYPTION_KEY: unset, a 32-byte key, a 16-byte key.
TfaKeyConfigs == {None, Some("K1"), Some("K16")}

\* The profile of account 1 with a recovery code issued at time 0.
TfaBaseProfile ==
    [RegisteredProfile EXCEPT !.resetPasswordCode = Some("111111"),
                              !.resetPasswordExpires = Some(ResetExpires(0))]

InitialTfaProfiles(e) ==
    LET enc    == EncryptIfConfigured(e, SecretA, "n1")
        stored == Some(enc.value)
    IN
    IF enc.threw THEN { TfaProfile(TfaBaseProfile, TfaDefaults, None) }
    ELSE
    { TfaProfile(TfaBaseProfile, TfaDefaults, None),
      TfaProfile(TfaBaseProfile, [tfaSecret |-> stored, isTfaEnabled |-> FALSE],
                 Some(SecretA)),
      TfaProfile(TfaBaseProfile, [tfaSecret |-> stored, isTfaEnabled |-> TRUE],
                 Some(SecretA)) }

InitTfa ==
    /\ accounts = { [uid |-> 1, email |-> "a@x.com", password |-> "password1"],
                    [uid |-> 2, email |-> "b@x.com", password |-> "password1"] }
    /\ nextUid = 3
    /\ \E k \in TfaKeyConfigs : env = [TFA_ENCRYPTION_KEY |-> k]
    /\ \E p \in InitialTfaProfiles(env) : profiles = {p}
    /\ now = 0
    /\ pc = [r \in TfaReq |-> "idle"]
    /\ dto = [r \in TfaReq |-> NoDto]
    /\ loc = [r \in TfaReq |-> InitTfaLoc]
    /\ result = [r \in TfaReq |-> NoResult]
    /\ prior = [r \in TfaReq |-> {}]

NextTfa ==
    \/ \E r \in TfaReq, d \in GenerateInputs, x \in {SecretA, SecretB}, n \in Nonces :
           TfaGenerateStart(r, d, x, n)
    \/ \E r \in TfaReq : TfaGenerateUpdate(r)
    \/ \E r \in TfaReq, d \in TfaConfirmInputs : TfaConfirmStart(r, d)
    \/ \E r \in TfaReq : TfaConfirmUpdate(r)
    \/ \E r \in TfaReq, h \in EndpointHeaders, x \in {SecretA, SecretB}, n \in Nonces :
           GenerateTfaSecret(r, h, x, n)
    \/ \E r \in TfaReq, h \in EndpointHeaders : ConfirmTfa(r, h, Totp(SecretA, 0))
    \/ \E r \in TfaReq, d \in LoginInputs : LoginStart(r, d)
    \/ \E r \in TfaReq : LoginCreateToken(r)
    \/ \E r \in TfaReq, d \in LoginTfaInputs : LoginTfaStart(r, d)
    \/ \E r \in TfaReq : LoginTfaCreateToken(r)

SpecTfa == InitTfa /\ [][NextTfa]_vars

---------------------------------------------------------------------------
(* Properties of TFA enrollment                                            *)

IsGenerate(r) == dto[r].kind = "generate"
IsTfaConfirm(r) == dto[r].kind = "confirm"
IsLogin(r) == dto[r].kind = "login"
IsLoginTfa(r) == dto[r].kind = "loginTfa"

TfaEnabledOk == Outcome("ok", "TFA habilitado")
GenerateOk == Outcome("ok", "uri")
NotStarted == Outcome("BadRequest", "TFA no iniciado para este usuario")
AlreadyEnabledError == Outcome("BadRequest", "TFA ya esta habilitado para este usuario")
BadCode == Outcome("BadRequest", "Codigo TFA invalido")

\* The states of the TFA state machine.
NotEnrolled(p) == p.tfaSecret = None
PendingConfirmation(p) == p.tfaSecret # None /\ ~p.isTfaEnabled
Enabled(p) == p.isTfaEnabled

\* Request r starts in this step, presents the token of account 1 (the
\* account with the profile) and no collaborator fails in the step.
StartsAuthenticated(r, kind) ==
    /\ pc[r] = "idle" /\ pc'[r] # "idle"
    /\ dto'[r].kind = kind
    /\ dto'[r].authorization = "Bearer t1"
    /\ loc'[r].cause \notin {"provider", "store", "cipher"}

\* C11: in every state, under every interleaving of generateTfaSecretForUser,
\* confirmTfaForUser, login and loginTfa executions, a profile with
\* isTfaEnabled = true has a tfaSecret.
C11_EnabledImpliesSecret ==
    \A p \in profiles : p.isTfaEnabled => p.tfaSecret \notin {None, Some(<<>>)}

\* A profile that started without TFA fields was enrolled by a
\* generateTfaSecretForUser and enabled by a confirmTfaForUser after it.
C11_Witness ==
    \E g, c \in TfaReq : \E p \in profiles :
        /\ IsGenerate(g) /\ result[g] = GenerateOk
        /\ IsTfaConfirm(c) /\ result[c] = TfaEnabledOk /\ g \in prior[c]
        /\ loc[g].readSecret = None
        /\ p.isTfaEnabled /\ p.tfaPlain = Some(Get(loc[g].generated).uri)

\* C12: no step sets a profile's tfaSecret back to null once it is set, nor
\* its isTfaEnabled back to false once it is true.
C12_TfaStateOnlyMovesForward ==
    [][\A p \in profiles : \E q \in profiles' :
          /\ q.firebaseUid = p.firebaseUid
          /\ p.tfaSecret # None => q.tfaSecret # None
          /\ p.isTfaEnabled => q.isTfaEnabled]_vars

\* A generateTfaSecretForUser overlapping the enabling confirmTfaForUser wrote
\* its secret over the one that confirmTfaForUser had verified: the profile
\* is enabled and holds the later secret.
C12_Witness ==
    \E g, c \in TfaReq : \E p \in profiles :
        /\ IsGenerate(g) /\ result[g] = GenerateOk
        /\ IsTfaConfirm(c) /\ result[c] = TfaEnabledOk
        /\ g \notin prior[c] /\ c \notin prior[g]
        /\ p.isTfaEnabled
        /\ p.tfaPlain = Some(Get(loc[g].generated).uri)
        /\ p.tfaPlain # loc[c].readPlain

\* C13: with the token of the profile's account and no collaborator failing,
\* a confirmTfaForUser presenting a code while the profile has no tfaSecret
\* fails with "TFA no iniciado", a generateTfaSecretForUser while the profile
\* is enabled fails with "TFA ya esta habilitado", and either leaves every
\* profile as it was.
C13_StateMachineRefusals ==
    [][\A r \in TfaReq : \A p \in FindByUid(1) :
          /\ ( /\ StartsAuthenticated(r, "confirm")
               /\ dto'[r].code # EmptyCode
               /\ NotEnrolled(p) )
             => pc'[r] = "done" /\ result'[r] = NotStarted /\ profiles' = profiles
          /\ ( /\ StartsAuthenticated(r, "generate")
               /\ Enabled(p) )
             => pc'[r] = "done" /\ result'[r] = AlreadyEnabledError
                /\ profiles' = profiles]_vars

\* On a profile without tfaSecret, confirmTfaForUser was refused as not
\* started with each of two codes.
C13_Witness ==
    \E r, s \in TfaReq : \E p \in profiles :
        /\ IsTfaConfirm(r) /\ IsTfaConfirm(s)
        /\ dto[r].code = Totp(SecretA, 0) /\ dto[s].code = Totp(SecretB, 0)
        /\ result[r] = NotStarted /\ result[s] = NotStarted
        /\ NotEnrolled(p)

\* The profile of uid with isTfaEnabled set and nothing else changed.
OnlyEnabled(ps, uid) ==
    { IF p.firebaseUid = uid THEN [p EXCEPT !.isTfaEnabled = TRUE] ELSE p : p \in ps }

\* C14: with the token of the profile's account and no collaborator failing,
\* a confirmTfaForUser that reads a profile pending confirmation and presents
\* a code that is not the current code of the secret its tfaSecret was made
\* from fails with "Codigo TFA invalido" and writes nothing; presenting the
\* current code of that secret it goes on to its update, and the update
\* changes isTfaEnabled of that profile to true and nothing else.
C14_ConfirmFlipsOnlyEnabled ==
    [][\A r \in TfaReq :
          /\ \A p \in FindByUid(1) :
                ( /\ StartsAuthenticated(r, "confirm")
                  /\ dto'[r].code # EmptyCode
                  /\ PendingConfirmation(p) )
                => /\ profiles' = profiles
                   /\ IF dto'[r].code = Totp(Get(p.tfaPlain), TotpCounter(now))
                      THEN pc'[r] = "enable"
                      ELSE pc'[r] = "done" /\ result'[r] = BadCode
          /\ pc[r] = "enable" /\ pc'[r] = "done" /\ loc'[r].cause = ""
                => /\ result'[r] = TfaEnabledOk
                   /\ profiles' = OnlyEnabled(profiles, Get(loc[r].uid))]_vars

\* On a profile pending confirmation, a confirmTfaForUser with the code of
\* another secret was refused, and a later one with the right code enabled TFA.
C14_Witness ==
    \E r, s \in TfaReq : \E p \in profiles :
        /\ IsTfaConfirm(r) /\ result[r] = BadCode
        /\ loc[r].readSecret # None /\ ~loc[r].readEnabled
        /\ IsTfaConfirm(s) /\ result[s] = TfaEnabledOk /\ r \in prior[s]
        /\ p.isTfaEnabled /\ Some(dto[s].code.secret) = p.tfaPlain
        /\ p.tfaSecret = loc[s].readSecret

---------------------------------------------------------------------------
(* Properties of login                                                     *)

TfaRequiredBody == Some([tfaRequired |-> TRUE, token |-> None, authenticated |-> FALSE])

\* The bearer token of the request does not verify.
BadBearer(r) == dto[r].authorization \in {"", "Bearer bad", "1"}

\* C15: a login that read a profile with isTfaEnabled = true returns
\* {tfaRequired: true, token: null, authenticated: false} and has made no
\* createCustomToken call; a login makes that call, and returns
\* authenticated: true with the token, only when what it read was not a
\* profile with isTfaEnabled = true; and a login whose bearer token does not
\* verify fails Unauthorized without a createCustomToken call.
C15_LoginBranchesOnTfa ==
    \A r \in TfaReq :
        IsLogin(r) =>
            /\ loc[r].found /\ loc[r].readEnabled
                  => /\ pc[r] = "done" /\ result[r].status = "ok"
                     /\ loc[r].body = TfaRequiredBody
                     /\ loc[r].tokenCalls = 0
            /\ loc[r].tokenCalls > 0
                  => loc[r].uid # None /\ ~loc[r].readEnabled /\ loc[r].tokenCalls = 1
            /\ pc[r] = "done" /\ result[r].status = "ok" /\ ~loc[r].readEnabled
                  => /\ loc[r].tokenCalls = 1
                     /\ loc[r].body = Some([tfaRequired |-> FALSE,
                                            token |-> loc[r].uid,
                                            authenticated |-> TRUE])
            /\ BadBearer(r)
                  => /\ pc[r] = "done" /\ result[r] = Unauthorized
                     /\ loc[r].tokenCalls = 0 /\ loc[r].body = None

\* One login read the enabled profile and was told that TFA is required;
\* another, for an account without an enabled profile, received its token.
C15_Witness ==
    \E r, s \in TfaReq :
        /\ IsLogin(r) /\ loc[r].readEnabled /\ loc[r].body = TfaRequiredBody
        /\ IsLogin(s) /\ pc[s] = "done" /\ loc[s].tokenCalls = 1
        /\ loc[s].body # None /\ Get(loc[s].body).authenticated

\* C16: a loginTfa calls createCustomToken, and returns a token, only if its
\* bearer token verified, the profile it read had isTfaEnabled = true and a
\* tfaSecret, and its code is the current code of the secret that tfaSecret
\* was made from; one that read no profile, or a profile that is not
\* enabled, fails Unauthorized without that call, whatever its code.
C16_TokenOnlyAfterSecondFactor ==
    \A r \in TfaReq :
        IsLoginTfa(r) =>
            /\ loc[r].tokenCalls > 0 \/ loc[r].body # None
                  => /\ ~BadBearer(r) /\ loc[r].uid # None
                     /\ loc[r].found /\ loc[r].readEnabled /\ loc[r].readSecret # None
                     /\ loc[r].readPlain # None
                     /\ dto[r].code = Totp(Get(loc[r].readPlain), TotpCounter(now))
            /\ ( /\ loc[r].uid # None /\ loc[r].cause # "store"
                 /\ ~(loc[r].found /\ loc[r].readEnabled /\ loc[r].readSecret # None) )
                  => /\ pc[r] = "done" /\ result[r] = Unauthorized
                     /\ loc[r].tokenCalls = 0 /\ loc[r].body = None

\* A loginTfa with the right code on the enabled profile received a token, and
\* a loginTfa for the account without a profile was refused.
C16_Witness ==
    \E r, s \in TfaReq :
        /\ IsLoginTfa(r) /\ pc[r] = "done" /\ loc[r].body # None
        /\ Get(loc[r].body).customToken = Some(1)
        /\ IsLoginTfa(s) /\ loc[s].uid = Some(2) /\ loc[s].cause = "not_enabled"
        /\ result[s] = Unauthorized

\* C17: every loginTfa that fails returns the same error, whatever made it
\* fail: any two failed executions have equal results.
C17_LoginTfaFailuresAlike ==
    \A r, s \in TfaReq :
        ( /\ IsLoginTfa(r) /\ pc[r] = "done" /\ loc[r].cause # ""
          /\ IsLoginTfa(s) /\ pc[s] = "done" /\ loc[s].cause # "" )
        => result[r] = result[s] /\ result[r].status = "Unauthorized"

\* Two loginTfa executions failed, one because of its code and one because
\* of its bearer token.
C17_Witness ==
    \E r, s \in TfaReq :
        /\ IsLoginTfa(r) /\ pc[r] = "done" /\ loc[r].cause = "bad_code"
        /\ IsLoginTfa(s) /\ pc[s] = "done"
        /\ loc[s].cause = "token"

\* C18: no step of a loginTfa execution changes a profile.
C18_LoginTfaWritesNothing ==
    [][\A r \in TfaReq :
          dto'[r].kind = "loginTfa" /\ pc'[r] # pc[r] => profiles' = profiles]_vars

\* A loginTfa succeeded and another was refused for its code; the profile
\* still is enabled and still holds its secret and its recovery code.
C18_Witness ==
    \E r, s \in TfaReq : \E p \in profiles :
        /\ IsLoginTfa(r) /\ pc[r] = "done" /\ loc[r].body # None
        /\ IsLoginTfa(s) /\ pc[s] = "done" /\ loc[s].cause = "bad_code"
        /\ p.isTfaEnabled /\ p.tfaSecret = loc[s].readSecret
        /\ p.resetPasswordCode # None /\ p.resetPasswordExpires # None

---------------------------------------------------------------------------
(* Properties of the stored secret                                         *)

\* Request r, a generateTfaSecretForUser, writes its secret and returns
\* success in this step.
GenerateWrites(r) ==
    /\ IsGenerate(r) /\ pc[r] = "tfaSecret"
    /\ pc'[r] = "done" /\ result'[r] = GenerateOk

\* C34: a successful generateTfaSecretForUser, with or without a key, leaves
\* the profile with isTfaEnabled false and a tfaSecret that maybeDecrypt turns
\* into the secret of the returned uri, and verifyCode accepts the current
\* code of that secret against the stored value.
C34_GenerateLeavesPendingSecret ==
    [][ \A r \in TfaReq :
          GenerateWrites(r) =>
              \A p \in profiles' :
                  p.firebaseUid = Get(loc[r].uid) =>
                      LET uri == Get(loc[r].generated).uri IN
                      /\ ~ p.isTfaEnabled
                      /\ IsSome(p.tfaSecret)
                      /\ MaybeDecrypt(env, Get(p.tfaSecret)) = uri
                      /\ VerifyCode(env, Totp(uri, TotpCounter(now)), Get(p.tfaSecret), now)
      ]_vars

\* C35: a profile that is Enabled holds the secret that each
\* confirmTfaForUser which enabled it had read and verified its code against,
\* and no generateTfaSecretForUser writes its secret to a profile that is
\* Enabled at the moment of the write.
C35_EnabledSecretIsConfirmed ==
    /\ [] \A c \in TfaReq : \A p \in profiles :
             /\ IsTfaConfirm(c) /\ result[c] = TfaEnabledOk
             /\ loc[c].uid = Some(p.firebaseUid)
             => p.isTfaEnabled /\ p.tfaSecret = loc[c].readSecret
    /\ [][ \A r \in TfaReq :
             GenerateWrites(r) =>
                 \A p \in profiles : p.firebaseUid = Get(loc[r].uid) => ~ Enabled(p)
         ]_vars

---------------------------------------------------------------------------
(* Properties of token issuance                                            *)

\* Request r calls createCustomToken in this step.
IssuesToken(r) == loc'[r].tokenCalls > loc[r].tokenCalls

\* The response of request r says authenticated: true.
Authenticated(r) == loc[r].body # None /\ Get(loc[r].body).authenticated

\* C38: a login whose bearer token verified and whose identity has no
\* profile in the store makes no createCustomToken call and does not return
\* authenticated: true.
C38_TokenOnlyWithProfile ==
    \A r \in TfaReq :
        ( /\ IsLogin(r) /\ loc[r].uid # None
          /\ FindByUid(Get(loc[r].uid)) = {} )
        => loc[r].tokenCalls = 0 /\ ~Authenticated(r)

\* C39, as stated: when a request calls createCustomToken while the profile
\* of its identity is Enabled, that request has verified a TOTP code against
\* the secret of that profile.
C39_NoTokenWhileEnabled ==
    [][ \A r \in TfaReq :
          IssuesToken(r) =>
              \A p \in profiles :
                  p.firebaseUid = Get(loc[r].uid) /\ Enabled(p)
                  => loc[r].verified /\ loc[r].readSecret = p.tfaSecret
      ]_vars

\* The confirmTfaForUser c enabled TFA while request r was in flight: neither
\* had returned when the other started.
EnabledDuring(r, c) ==
    /\ c # r /\ IsTfaConfirm(c) /\ result[c] = TfaEnabledOk
    /\ loc[c].uid = loc[r].uid
    /\ r \notin prior[c] /\ c \notin prior[r]

\* C39, amended: a request that read its profile as Enabled calls
\* createCustomToken only if it is a loginTfa whose code is the current code
\* of the secret it read; and a request that calls createCustomToken without
\* a verified code while the profile is Enabled is a login that read the
\* profile before a confirmTfaForUser, in flight at the same time, enabled it.
C39_TokenAfterEnabledReadIsVerified ==
    /\ [] \A r \in TfaReq :
             loc[r].tokenCalls > 0 /\ loc[r].found /\ loc[r].readEnabled
             => /\ IsLoginTfa(r) /\ loc[r].verified
                /\ loc[r].readPlain # None
                /\ dto[r].code = Totp(Get(loc[r].readPlain), TotpCounter(now))
    /\ [][ \A r \in TfaReq :
             IssuesToken(r) =>
                 \A p \in profiles :
                     p.firebaseUid = Get(loc[r].uid) /\ Enabled(p) /\ ~loc[r].verified
                     => /\ IsLogin(r) /\ loc[r].found /\ ~loc[r].readEnabled
                        /\ \E c \in TfaReq : EnabledDuring(r, c)
         ]_vars

\* A login read the profile before it was enabled and received its token
\* after a concurrent confirmTfaForUser had enabled it.
C39_Witness ==
    \E r, c \in TfaReq : \E p \in profiles :
        /\ IsLogin(r) /\ pc[r] = "done" /\ Authenticated(r)
        /\ loc[r].found /\ ~loc[r].readEnabled /\ ~loc[r].verified
        /\ EnabledDuring(r, c)
        /\ p.firebaseUid = Get(loc[r].uid) /\ Enabled(p)

---------------------------------------------------------------------------
(* Two generateTfaSecretForUser executions for account 1, which generate   *)
(* different secrets, race on the profile, which is not Enabled; the       *)
(* requests after them are confirmTfaForUser calls for account 1 with the  *)
(* current code of one secret or the other.                                *)

\* The secret authenticator.generateSecret() gives to each of the two.
RaceSecret(r) == IF r = 1 THEN SecretA ELSE SecretB

RaceGenerateInput == [kind |-> "generate", authorization |-> "Bearer t1", code |-> EmptyCode]

RaceTfaConfirmInputs ==
    { [kind |-> "confirm", authorization |-> "Bearer t1", code |-> c] : c \in TfaCodes }

InitTfaRace ==
    /\ accounts = { [uid |-> 1, email |-> "a@x.com", password |-> "password1"],
                    [uid |-> 2, email |-> "b@x.com", password |-> "password1"] }
    /\ nextUid = 3
    /\ \E k \in TfaKeyConfigs : env = [TFA_ENCRYPTION_KEY |-> k]
    /\ \E p \in InitialTfaProfiles(env) : ~p.isTfaEnabled /\ profiles = {p}
    /\ now = 0
    /\ pc = [r \in RaceReq |-> "idle"]
    /\ dto = [r \in RaceReq |-> NoDto]
    /\ loc = [r \in RaceReq |-> InitTfaLoc]
    /\ result = [r \in RaceReq |-> NoResult]
    /\ prior = [r \in RaceReq |-> {}]

NextTfaRace ==
    \/ \E r \in RaceWriters, n \in Nonces :
           TfaGenerateStart(r, RaceGenerateInput, RaceSecret(r), n)
    \/ \E r \in RaceReq : TfaGenerateUpdate(r)
    \/ \E r \in RaceConfirms, d \in RaceTfaConfirmInputs : TfaConfirmStart(r, d)
    \/ \E r \in RaceReq : TfaConfirmUpdate(r)

SpecTfaRace == InitTfaRace /\ [][NextTfaRace]_vars

\* Both racing requests have completed and written their secrets.
BothGenerated == \A w \in RaceWriters : pc[w] = "done" /\ result[w] = GenerateOk

\* The racing request whose secret is not `plain`.
OtherSecret(plain) == IF plain = SecretA THEN SecretB ELSE SecretA

\* C33: the update of one of the two requests stores exactly the secret that
\* request generated, whatever the other had stored, and nothing else
\* changes the tfaSecret of a profile; so once both have completed the store
\* holds the secret of the one that wrote last.  A confirmTfaForUser that
\* starts then passes its code check with the current code of the stored
\* secret and fails with 'Codigo TFA invalido' with the current code of the
\* other secret, and one that returns success submitted the code of the
\* secret it read.
C33_LastSecretWins ==
    /\ [][ \A r \in RaceWriters : GenerateWrites(r) =>
             \A p \in profiles' :
                 p.firebaseUid = Get(loc[r].uid) =>
                     /\ p.tfaSecret = Some(Get(loc[r].generated).secretAuthenticator)
                     /\ p.tfaPlain = Some(RaceSecret(r))
                     /\ MaybeDecrypt(env, Get(p.tfaSecret)) = RaceSecret(r)
         ]_vars
    /\ [][ {<<p.firebaseUid, p.tfaSecret>> : p \in profiles'}
              # {<<p.firebaseUid, p.tfaSecret>> : p \in profiles}
           => \E r \in RaceWriters : GenerateWrites(r) ]_vars
    /\ [][ \A c \in RaceConfirms :
             ( /\ BothGenerated /\ pc[c] = "idle" /\ pc'[c] # "idle"
               /\ loc'[c].cause \notin {"store", "provider"} )
             => \A p \in profiles :
                   p.firebaseUid = 1 =>
                   /\ IsSome(p.tfaPlain)
                   /\ dto'[c].code = Totp(Get(p.tfaPlain), TotpCounter(now))
                         => pc'[c] = "enable"
                   /\ dto'[c].code = Totp(OtherSecret(Get(p.tfaPlain)), TotpCounter(now))
                         => pc'[c] = "done" /\ result'[c] = BadCode
         ]_vars
    /\ [] \A c \in RaceConfirms :
            ( /\ RaceWriters \subseteq prior[c]
              /\ \A w \in RaceWriters : result[w] = GenerateOk
              /\ result[c] = TfaEnabledOk )
            => \A p \in profiles :
                  p.firebaseUid = 1 =>
                  /\ p.tfaSecret = loc[c].readSecret /\ p.tfaPlain = loc[c].readPlain
                  /\ dto[c].code = Totp(Get(p.tfaPlain), TotpCounter(now))

\* The two requests overlapped and both wrote; a confirmTfaForUser that
\* started afterwards with the code of the overwritten secret was refused.
C33_Witness ==
    \E w, l \in RaceWriters : \E c \in RaceConfirms : \E p \in profiles :
        /\ w # l /\ BothGenerated
        /\ w \notin prior[l] /\ l \notin prior[w]
        /\ p.firebaseUid = 1 /\ p.tfaPlain = Some(RaceSecret(w))
        /\ ~p.isTfaEnabled
        /\ {w, l} \subseteq prior[c]
        /\ dto[c].code = Totp(RaceSecret(l), TotpCounter(now))
        /\ loc[c].readPlain = Some(RaceSecret(w))
        /\ result[c] = BadCode

---------------------------------------------------------------------------
(* Properties of the guarded TFA routes                                    *)

\* The request came in through the controller.
IsEndpoint(r) == "header" \in DOMAIN dto[r]

\* Request r is accepted in this step, through the controller, with a header
\* the guard lets through for account 1.
EndpointAccepts(r, kind) ==
    /\ pc[r] = "idle" /\ pc'[r] # "idle"
    /\ IsEndpoint(r)' /\ dto'[r].kind = kind
    /\ dto'[r].header = "Bearer t1"

\* A collaborator (identity provider, store, cipher) failed in request r.
CollaboratorFailed(r) == loc[r].cause \in {"provider", "store", "cipher"}

\* C23: a POST /auth/tfa/generate with a valid Bearer idToken of a user whose
\* profile exists and is not Enabled goes on to persist the secret and
\* returns the uri; a POST /auth/tfa/confirm with a valid Bearer idToken and
\* the correct code of a user in PendingConfirmation goes on to set
\* isTfaEnabled and returns success; neither fails Unauthorized.
C23_GuardedRoutesSucceed ==
    [][ \A r \in TfaReq :
          /\ \A p \in FindByUid(1) :
                EndpointAccepts(r, "generate") /\ ~ Enabled(p) /\ ~ CollaboratorFailed(r)'
                    => pc'[r] = "tfaSecret"
          /\ \A p \in FindByUid(1) :
                /\ EndpointAccepts(r, "confirm") /\ PendingConfirmation(p)
                /\ dto'[r].code = Totp(Get(p.tfaPlain), TotpCounter(now))
                /\ ~ CollaboratorFailed(r)'
                => pc'[r] = "enable"
          /\ IsEndpoint(r) /\ pc[r] = "tfaSecret" /\ pc'[r] = "done"
             /\ ~ CollaboratorFailed(r)'
                => result'[r] = GenerateOk
          /\ IsEndpoint(r) /\ pc[r] = "enable" /\ pc'[r] = "done"
             /\ ~ CollaboratorFailed(r)'
                => result'[r] = TfaEnabledOk
      ]_vars

---------------------------------------------------------------------------
(* The cipher on its own: encryptIfConfigured and maybeDecrypt applied to  *)
(* the strings of the model under each configuration of the key.           *)

MaxCipherReq == 2

CipherReq == 1..MaxCipherReq

\* Values of TFA_ENCRYPTION_KEY: unset, empty, two 32-byte keys, a 16-byte key.
KeyConfigs == {None, Some(""), Some("K1"), Some("K2"), Some("K16")}

\* Plaintexts: the empty string, two secrets, and strings of two and of three
\* dot-separated segments.
PlainInputs ==
    { <<>>, SecretA, SecretB, Str(<<"a", ".", "b">>), Str(<<"a", ".", "b", ".", "c">>) }

InitCipherLoc == [iv |-> "", token |-> <<>>, out |-> <<>>]

\* encryptIfConfigured(plain)
CipherEncrypt(r, plain, n) ==
    /\ CanStart(r)
    /\ dto' = [dto EXCEPT ![r] = [kind |-> "encrypt", payload |-> plain]]
    /\ prior' = [prior EXCEPT ![r] = Returned]
    /\ LET enc == EncryptIfConfigured(env, plain, n) IN
       IF enc.threw
       THEN /\ loc' = [loc EXCEPT ![r].iv = n]
            /\ Return(r, Outcome("threw", "Invalid key length"))
       ELSE /\ loc' = [loc EXCEPT ![r].iv = n, ![r].token = enc.value]
            /\ Goto(r, "encrypted")
    /\ UNCHANGED <<accounts, nextUid, profiles, now, env>>

\* maybeDecrypt applied to what encryptIfConfigured returned
CipherDecrypt(r) ==
    /\ pc[r] = "encrypted"
    /\ LET dec == MaybeDecryptCall(env, loc[r].token) IN
       /\ loc' = [loc EXCEPT ![r].out = dec.value]
       /\ Return(r, IF dec.threw THEN Outcome("threw", "decipher") ELSE Outcome("ok", ""))
    /\ UNCHANGED <<accounts, nextUid, profiles, now, dto, prior, env>>

\* The token encryptIfConfigured returns for x under the key `key`, drawing n.
TokenOf(key, n, x) ==
    EncryptIfConfigured([TFA_ENCRYPTION_KEY |-> Some(key)], x, n).value

\* Strings handed to maybeDecrypt that no call of encryptIfConfigured under
\* the configured key returned as they are: tokens made under each 32-byte
\* key, a token whose tag belongs to another plaintext, one whose iv segment
\* was replaced, one whose ciphertext segment was replaced, one cut to two
\* segments and one with a fourth segment.
ForeignPayloads ==
    LET iv(n)     == Base64Encode(RandomBytes(n))
        tag(n, x) == Base64Encode(AuthTag("K1", n, x))
        ct(n, x)  == Base64Encode(CipherText("K1", n, x))
    IN { TokenOf("K1", "n1", SecretA),
         TokenOf("K2", "n1", SecretA),
         iv("n1") \o <<Dot>> \o tag("n1", SecretB) \o <<Dot>> \o ct("n1", SecretA),
         iv("n2") \o <<Dot>> \o tag("n1", SecretA) \o <<Dot>> \o ct("n1", SecretA),
         iv("n1") \o <<Dot>> \o tag("n1", SecretA) \o <<Dot>> \o Str(<<"c">>),
         iv("n1") \o <<Dot>> \o tag("n1", SecretA),
         TokenOf("K1", "n1", SecretA) \o <<Dot>> \o Str(<<"c">>) }

\* maybeDecrypt(payload) of a string that did not come from this run's
\* encryptIfConfigured
CipherDecryptPayload(r, payload) ==
    /\ CanStart(r)
    /\ dto' = [dto EXCEPT ![r] = [kind |-> "decrypt", payload |-> payload]]
    /\ prior' = [prior EXCEPT ![r] = Returned]
    /\ LET dec == MaybeDecryptCall(env, payload) IN
       /\ loc' = [loc EXCEPT ![r].out = dec.value]
       /\ Return(r, IF dec.threw THEN Outcome("threw", "decipher") ELSE Outcome("ok", ""))
    /\ UNCHANGED <<accounts, nextUid, profiles, now, env>>

InitCipher ==
    /\ accounts = {}
    /\ nextUid = 1
    /\ profiles = {}
    /\ now = 0
    /\ pc = [r \in CipherReq |-> "idle"]
    /\ dto = [r \in CipherReq |-> NoDto]
    /\ loc = [r \in CipherReq |-> InitCipherLoc]
    /\ result = [r \in CipherReq |-> NoResult]
    /\ prior = [r \in CipherReq |-> {}]
    /\ \E k \in KeyConfigs : env = [TFA_ENCRYPTION_KEY |-> k]

NextCipher ==
    \/ \E r \in CipherReq, x \in PlainInputs, n \in Nonces : CipherEncrypt(r, x, n)
    \/ \E r \in CipherReq : CipherDecrypt(r)
    \/ \E r \in CipherReq, x \in PlainInputs \cup ForeignPayloads :
          CipherDecryptPayload(r, x)

SpecCipher == InitCipher /\ [][NextCipher]_vars

---------------------------------------------------------------------------
(* Properties of the cipher                                                *)

\* TFA_ENCRYPTION_KEY holds one of the 32-byte keys.
KeyConfigured == env.TFA_ENCRYPTION_KEY \in {Some("K1"), Some("K2")}

\* TFA_ENCRYPTION_KEY is unset or empty.
NoKeyConfigured == env.TFA_ENCRYPTION_KEY \in {None, Some("")}

IsEncrypt(r) == dto[r].kind = "encrypt"
IsDecrypt(r) == dto[r].kind = "decrypt"

\* C19: with a 32-byte key configured, the token encryptIfConfigured returns
\* for a plaintext x has exactly three dot-separated segments, which are the
\* base64 texts of the nonce drawn by that call, of the authentication tag
\* and of the ciphertext, in that order; and maybeDecrypt of the token is x.
C19_RoundTrip ==
    \A r \in CipherReq :
        KeyConfigured /\ IsEncrypt(r) /\ pc[r] # "idle" =>
            LET x     == dto[r].payload
                key   == Get(env.TFA_ENCRYPTION_KEY)
                parts == Split(loc[r].token)
            IN /\ pc[r] \in {"encrypted", "done"}
               /\ Len(parts) = 3
               /\ Base64Decode(parts[1]) = RandomBytes(loc[r].iv)
               /\ Base64Decode(parts[2]) = AuthTag(key, loc[r].iv, x)
               /\ Base64Decode(parts[3]) = CipherText(key, loc[r].iv, x)
               /\ pc[r] = "done" => result[r].status = "ok" /\ loc[r].out = x

\* Under a configured key, the empty string, a secret and a string that
\* itself has three segments have been encrypted and decrypted, two of them
\* with different nonces.
C19_Witness ==
    /\ KeyConfigured
    /\ \E r, s \in CipherReq :
          /\ IsEncrypt(r) /\ pc[r] = "done" /\ dto[r].payload = SecretA
          /\ IsEncrypt(s) /\ pc[s] = "done"
          /\ dto[s].payload = Str(<<"a", ".", "b", ".", "c">>)
          /\ loc[r].iv # loc[s].iv
          /\ loc[r].token # dto[r].payload

\* C20: with no key configured (the variable unset or empty),
\* encryptIfConfigured returns its input and maybeDecrypt returns its input,
\* for every input.
C20_DegradedModeIsIdentity ==
    \A r \in CipherReq :
        NoKeyConfigured =>
            /\ IsEncrypt(r) /\ pc[r] # "idle" =>
                  /\ pc[r] \in {"encrypted", "done"}
                  /\ loc[r].token = dto[r].payload
                  /\ pc[r] = "done" => loc[r].out = dto[r].payload
            /\ IsDecrypt(r) /\ pc[r] # "idle" =>
                  pc[r] = "done" /\ loc[r].out = dto[r].payload

\* Without a key, a three-segment string went through maybeDecrypt and a
\* secret through encryptIfConfigured and maybeDecrypt.
C20_Witness ==
    /\ NoKeyConfigured
    /\ \E r, s \in CipherReq :
          /\ IsDecrypt(r) /\ pc[r] = "done"
          /\ dto[r].payload = Str(<<"a", ".", "b", ".", "c">>)
          /\ IsEncrypt(s) /\ pc[s] = "done" /\ dto[s].payload = SecretA

\* The payload is a token encryptIfConfigured makes under the key for one of
\* the plaintexts and nonces of the model.
TokenUnder(key, payload) ==
    \E x \in PlainInputs, n \in Nonces :
        payload = TokenSegments(RandomBytes(n), AuthTag(key, n, x), CipherText(key, n, x))

\* C21: maybeDecrypt never raises; it returns its input unchanged for a
\* string that does not split into exactly three dot-separated segments, and
\* for a three-segment string that does not decrypt under the configured key
\* (a tag of another plaintext, a token of another key, a replaced segment,
\* a key of the wrong length).
C21_DecryptNeverRaises ==
    \A r \in CipherReq :
        IsDecrypt(r) /\ pc[r] # "idle" =>
            LET payload == dto[r].payload IN
            /\ pc[r] = "done" /\ result[r].status = "ok"
            /\ Len(Split(payload)) # 3 => loc[r].out = payload
            /\ /\ Len(Split(payload)) = 3
               /\ env.TFA_ENCRYPTION_KEY # None
               /\ ~ (KeyConfigured /\ TokenUnder(Get(env.TFA_ENCRYPTION_KEY), payload))
               => loc[r].out = payload

\* Under the key K1, maybeDecrypt was handed a token of the key K2 and a
\* token whose tag belongs to another plaintext, and gave both back.
C21_Witness ==
    /\ env.TFA_ENCRYPTION_KEY = Some("K1")
    /\ \E r, s \in CipherReq :
          /\ IsDecrypt(r) /\ pc[r] = "done"
          /\ dto[r].payload = TokenOf("K2", "n1", SecretA)
          /\ loc[r].out = dto[r].payload
          /\ IsDecrypt(s) /\ pc[s] = "done"
          /\ Len(Split(dto[s].payload)) = 3
          /\ LET parts == Split(dto[s].payload) IN
             /\ Base64Decode(parts[2]) = AuthTag("K1", "n1", SecretB)
             /\ Base64Decode(parts[3]) = CipherText("K1", "n1", SecretA)
          /\ loc[s].out = dto[s].payload

---------------------------------------------------------------------------
(* The TOTP check on its own: a secret from generateSecretAuthenticator,   *)
(* then verifyCode of a code made for some secret and time step, with the  *)
(* clock in some time step of the first tick.                              *)

MaxOtpReq == 1
MaxStep == 3

OtpReq == 1..MaxOtpReq

\* Time steps of 30 seconds the clock passes through.
OtpSteps == 0..MaxStep

\* TFA_ENCRYPTION_KEY unset, or a 32-byte key.
OtpKeyConfigs == {None, Some("K1")}

\* Codes an authenticator application shows: for either secret, at any step.
OtpCodes == { Totp(S, t) : S \in {SecretA, SecretB}, t \in OtpSteps }

InitOtpLoc == [plain |-> <<>>, secret |-> <<>>, counter |-> 0, ok |-> FALSE]

\* generateSecretAuthenticator(email): the secret as it is stored.
OtpEnroll(r, plain, n) ==
    /\ CanStart(r)
    /\ dto' = [dto EXCEPT ![r] = [kind |-> "verify", code |-> EmptyCode]]
    /\ prior' = [prior EXCEPT ![r] = Returned]
    /\ LET gen == GenerateSecretAuthenticator(env, plain, n) IN
       /\ ~ gen.threw
       /\ loc' = [loc EXCEPT ![r].plain = gen.value.uri,
                             ![r].secret = gen.value.secretAuthenticator]
    /\ Goto(r, "enrolled")
    /\ UNCHANGED <<accounts, nextUid, profiles, now, env>>

\* verifyCode(code, secret) with the clock in the time step `counter`
OtpVerify(r, code, counter) ==
    /\ pc[r] = "enrolled"
    /\ dto' = [dto EXCEPT ![r].code = code]
    /\ loc' = [loc EXCEPT ![r].counter = counter,
                          ![r].ok = VerifyCodeAt(env, code, loc[r].secret, counter)]
    /\ Return(r, Outcome("ok", ""))
    /\ UNCHANGED <<accounts, nextUid, profiles, now, prior, env>>

InitOtp ==
    /\ accounts = {}
    /\ nextUid = 1
    /\ profiles = {}
    /\ now = 0
    /\ pc = [r \in OtpReq |-> "idle"]
    /\ dto = [r \in OtpReq |-> NoDto]
    /\ loc = [r \in OtpReq |-> InitOtpLoc]
    /\ result = [r \in OtpReq |-> NoResult]
    /\ prior = [r \in OtpReq |-> {}]
    /\ \E k \in OtpKeyConfigs : env = [TFA_ENCRYPTION_KEY |-> k]

NextOtp ==
    \/ \E r \in OtpReq, S \in {SecretA, SecretB}, n \in Nonces : OtpEnroll(r, S, n)
    \/ \E r \in OtpReq, code \in OtpCodes, u \in OtpSteps : OtpVerify(r, code, u)

SpecOtp == InitOtp /\ [][NextOtp]_vars

---------------------------------------------------------------------------
(* Properties of the TOTP check                                            *)

\* The distance between two time steps.
StepDistance(t, u) == IF t >= u THEN t - u ELSE u - t

\* C22: verifyCode accepts a code generated for the stored secret at time
\* step t when the clock is in step t-1, t or t+1, rejects it when the clock
\* is further away, and rejects at every step a code generated for another
\* secret.
C22_ToleranceOfOneStep ==
    \A r \in OtpReq :
        pc[r] = "done" =>
            LET code == dto[r].code
                u    == loc[r].counter
            IN /\ code.secret = loc[r].plain /\ StepDistance(code.step, u) <= 1
                  => loc[r].ok
               /\ code.secret = loc[r].plain /\ StepDistance(code.step, u) > 1
                  => ~ loc[r].ok
               /\ code.secret # loc[r].plain => ~ loc[r].ok

====
